---- MODULE Spec2Model ----
(***************************************************************************)
(* Chat-augmentation middleware of memphora-sdk-js (src/src/vercel.ts):    *)
(* createMemphoraMiddleware (client registry, resolveUserId, beforeChat,   *)
(* afterChat) and the stream observer wrapStreamWithMemory, together with  *)
(* the remote memory endpoint the requests go to and a consumer that reads *)
(* the wrapped stream with the for-await-of protocol.                      *)
(*                                                                         *)
(* Strings are TLA+ strings; an optional value (undefined or a value) is a *)
(* sequence of length 0 or 1.                                              *)
(***************************************************************************)
EXTENDS Integers, Sequences, FiniteSets, TLC

\* ------------------------------------------------------------------ bounds
MaxChunks == 2      \* longest producer stream
MaxCalls == 1       \* middleware calls made directly by the application in one run
MaxRace == 2        \* calls in flight at once on one middleware instance
MaxRepeat == 2      \* beforeChat calls made on one message list

\* ------------------------------------------------------- optional values
None == <<>>
Some(v) == <<v>>
\* JS truthiness of an optional string: undefined and '' are falsy
Truthy(opt) == opt # None /\ opt[1] # ""

\* ----------------------------------------------------------------- chunks
\* A chunk as wrapStreamWithMemory looks at it: choices[0].delta.content,
\* delta.content and content, each present or not.
Chunk(cdc, dc, c) == [choices |-> cdc, delta |-> dc, content |-> c]

ChunkSet ==
    { Chunk(Some("Hel"), None, None),
      Chunk(Some(""), Some("lo"), Some("zz")),
      Chunk(None, None, None) }

\* (variant: ?? in place of ||, the first shape that is there)
chunkContentFirstPresent(chunk) ==
    IF chunk.choices # None THEN chunk.choices[1]
    ELSE IF chunk.delta # None THEN chunk.delta[1]
    ELSE IF chunk.content # None THEN chunk.content[1]
    ELSE ""

\* the text delta of a chunk: first truthy of the three shapes, else ''
chunkContent(chunk) ==
    IF Truthy(chunk.choices) THEN chunk.choices[1]
    ELSE IF Truthy(chunk.delta) THEN chunk.delta[1]
    ELSE IF Truthy(chunk.content) THEN chunk.content[1]
    ELSE ""

RECURSIVE ConcatContent(_)
\* in-order concatenation of the text deltas of a chunk sequence
ConcatContent(cs) ==
    IF cs = <<>> THEN "" ELSE ConcatContent(SubSeq(cs, 1, Len(cs) - 1)) \o chunkContent(cs[Len(cs)])

SeqsUpTo(S, n) == UNION { [1..k -> S] : k \in 0..n }

\* the underlying streams: a finite chunk sequence that then ends or throws
Producers == [chunks : SeqsUpTo(ChunkSet, MaxChunks), end : {"done", "throw"}]

ProducerError == "stream failed"
ReturnError == "stream return failed"
ExtractorError == "getUserId failed"

\* --------------------------------------------------------------- messages
\* an AIMessage: role, content, and the fields that ride along (id stands for
\* them; a message built without one has id None)
AIMessage(id, role, content) == [id |-> id, role |-> role, content |-> content]

ListSystemUser ==
    << AIMessage(Some("m1"), "system", "be brief"), AIMessage(Some("m2"), "user", "hi") >>
ListUserToolAssistant ==
    << AIMessage(Some("m1"), "user", "hi"), AIMessage(Some("m2"), "tool", "42"),
       AIMessage(Some("m3"), "assistant", "yo") >>
ListTwoUsersTwoSystems ==
    << AIMessage(Some("m1"), "user", "first"), AIMessage(Some("m2"), "system", "s1"),
       AIMessage(Some("m3"), "user", "second"), AIMessage(Some("m4"), "system", "s2") >>
ListNoUser ==
    << AIMessage(Some("m1"), "system", "s1"), AIMessage(Some("m2"), "assistant", "yo") >>
ListEmptyLastUser ==
    << AIMessage(Some("m1"), "user", "hi"), AIMessage(Some("m2"), "user", "") >>

StreamMessageLists == { ListSystemUser, ListUserToolAssistant }
MessageLists ==
    { << >>, ListSystemUser, ListUserToolAssistant, ListTwoUsersTwoSystems, ListNoUser,
      ListEmptyLastUser }

\* ---------------------------------------------------------------- requests
\* An inbound Request as the extractor sees it: absent, or present with the
\* identity the extractor derives from it, or one the extractor throws on.
Req(present, uid, throws) == [present |-> present, uid |-> uid, throws |-> throws]
NoReq == Req(FALSE, "", FALSE)
Requests == { NoReq, Req(TRUE, "bob", FALSE), Req(TRUE, "", TRUE) }

\* the options a direct call may carry
OptUserIds == { None, Some("alice") }
OptQueries == { None, Some("favorite color") }

\* ---------------------------------------------------------------- endpoint
\* what a store (extract) request can come back with
MemoryLists == { <<>>, << "mem1" >> }
\* what a search request can come back with: a result whose facts field is
\* missing, or a list of facts, each with a text and maybe a memory_id
Fact(text, memory_id) == [text |-> text, memory_id |-> memory_id]
SearchResult(facts) == [facts |-> facts]
SearchResults ==
    { SearchResult(None), SearchResult(Some(<< >>)),
      SearchResult(Some(<< Fact("likes blue", Some("mem1")) >>)),
      SearchResult(Some(<< Fact("likes blue", Some("mem1")), Fact("has a cat", None) >>)) }
\* what a failed request throws: an Error with a message, or (a transport
\* that rejects with something else) a value that is no Error
Failure(isError, message) == [isError |-> isError, message |-> message]
Failures == { Failure(TRUE, "HTTP 500: Internal Server Error"), Failure(FALSE, "") }

\* ------------------------------------------------------------------ results
AfterChatResult(success, memories, error) ==
    [success |-> success, memories |-> memories, error |-> error]
NoResult == [success |-> FALSE, memories |-> None, error |-> None]
BeforeChatResult(context, memories, enhancedMessages, userId) ==
    [ context |-> context, memories |-> memories, enhancedMessages |-> enhancedMessages,
      userId |-> userId ]
NoBefore == BeforeChatResult("", << >>, << >>, "")

VARIABLES
    config,          \* createMemphoraMiddleware's configuration after defaults
    clientCache,     \* userId -> Memphora handle
    constructed,     \* number of Memphora handles constructed
    extractorCalls,  \* number of getUserId invocations
    calls,           \* the middleware calls made so far, each with its position
    requests,        \* the requests sent to the remote endpoint
    stream,          \* the underlying producer
    pulled,          \* number of chunks the wrapper pulled from the producer
    chatMessages,    \* the chat's message list, as passed to the middleware
    wrapUserId,      \* userId argument of wrapStreamWithMemory
    fullResponse,    \* the accumulator
    memoryPromise,   \* the completion handle
    genPc,           \* position of the async generator
    completion,      \* the completion the generator's try block ended with
    streamCall,      \* index in calls of the generator's afterChat call, 0 if none
    consumerPc,      \* position of the consumer
    consumed,        \* the chunks the consumer received
    consumerOutcome, \* how the consumer's loop ended
    chatHistory      \* MemphoraLlamaIndex's local chat history

vars == << config, clientCache, constructed, extractorCalls, calls, requests,
           stream, pulled, chatMessages, wrapUserId, fullResponse, memoryPromise,
           genPc, completion, streamCall, consumerPc, consumed, consumerOutcome,
           chatHistory >>

mwVars == << clientCache, constructed, extractorCalls, calls, requests >>
genVars == << pulled, fullResponse, memoryPromise, genPc, completion, streamCall >>
consumerVars == << consumerPc, consumed, consumerOutcome >>
inputVars == << config, stream, chatMessages, wrapUserId >>

\* ------------------------------------------------------------ configuration
\* createMemphoraMiddleware's destructuring with its defaults
MiddlewareConfig(hasGetUserId, autoStore, injectAsSystemMessage) ==
    [ apiKey |-> "key", apiUrl |-> None, hasGetUserId |-> hasGetUserId,
      defaultUserId |-> "anonymous", maxMemories |-> 10, maxTokens |-> 2000,
      autoStore |-> autoStore, injectAsSystemMessage |-> injectAsSystemMessage,
      systemMessagePrefix |-> "Relevant context from previous conversations:" ]

\* a configuration whose apiKey is missing (undefined: the type's required
\* field is not checked at run time)
NoKey == "undefined"

\* ------------------------------------------------------------ the registry
\* new Memphora({userId, apiKey, apiUrl, maxTokens}); serial tells two
\* constructions apart
Memphora(userId, serial) ==
    [ userId |-> userId, apiKey |-> config.apiKey, apiUrl |-> config.apiUrl,
      maxTokens |-> config.maxTokens, serial |-> serial ]

\* (variant: no has() test, every call constructs and sets)
getClientAlwaysConstructs(userId) ==
    /\ clientCache' = [ u \in DOMAIN clientCache \cup {userId} |->
                          IF u = userId THEN Memphora(userId, constructed + 1)
                          ELSE clientCache[u] ]
    /\ constructed' = constructed + 1

\* (variant: one handle for the instance, filed under every user id)
getClientSharedHandle(userId) ==
    IF userId \in DOMAIN clientCache
    THEN UNCHANGED << clientCache, constructed >>
    ELSE IF DOMAIN clientCache # {}
    THEN /\ clientCache' = clientCache @@
                (userId :> clientCache[CHOOSE u \in DOMAIN clientCache : TRUE])
         /\ UNCHANGED constructed
    ELSE /\ clientCache' = clientCache @@ (userId :> Memphora(userId, constructed + 1))
         /\ constructed' = constructed + 1

\* (variant: a cache of one entry, a miss clears the others)
getClientEvicts(userId) ==
    IF userId \in DOMAIN clientCache
    THEN UNCHANGED << clientCache, constructed >>
    ELSE /\ clientCache' = (userId :> Memphora(userId, constructed + 1))
         /\ constructed' = constructed + 1

\* getClient: look up, construct and insert on a miss; the handle the caller
\* gets is clientCache'[userId]
getClient(userId) ==
    IF userId \in DOMAIN clientCache
    THEN UNCHANGED << clientCache, constructed >>
    ELSE /\ clientCache' = clientCache @@ (userId :> Memphora(userId, constructed + 1))
         /\ constructed' = constructed + 1

\* resolveUserId: the extractor's result when an extractor and a request are
\* both there, else the default identity
Resolved(userId) == [ok |-> TRUE, value |-> userId]
Rejected(error) == [ok |-> FALSE, value |-> error]
\* (variant: try/catch around getUserId, a failure gives the default identity)
resolveUserIdSwallows(req) ==
    IF config.hasGetUserId /\ req.present /\ ~req.throws
    THEN Resolved(req.uid)
    ELSE Resolved(config.defaultUserId)

\* (variant: an empty extractor result falls back to the default identity)
resolveUserIdDefaultOnEmpty(req) ==
    IF config.hasGetUserId /\ req.present /\ req.throws
    THEN Rejected(ExtractorError)
    ELSE IF config.hasGetUserId /\ req.present /\ req.uid # ""
    THEN Resolved(req.uid)
    ELSE Resolved(config.defaultUserId)

resolveUserId(req) ==
    IF config.hasGetUserId /\ req.present
    THEN IF req.throws THEN Rejected(ExtractorError) ELSE Resolved(req.uid)
    ELSE Resolved(config.defaultUserId)

\* ------------------------------------------------------------------- calls
\* a call of a middleware operation: its arguments (text is afterChat's
\* assistantResponse, getContext's query, store's content), where it stands,
\* the handle getClient gave it, and what it came back with (result for
\* afterChat, before for beforeChat and getContext, memory for store); for
\* beforeChat also which array its enhancedMessages is and what the caller's
\* list holds once it has returned
Call(op, caller, messages, text, req, optUserId, optQuery) ==
    [ op |-> op, caller |-> caller, messages |-> messages, text |-> text,
      req |-> req, optUserId |-> optUserId, optQuery |-> optQuery,
      pc |-> "start", userId |-> "", handle |-> None, error |-> "",
      result |-> NoResult, before |-> NoBefore, memory |-> None,
      enhancedArray |-> "none", inputAfter |-> messages ]

\* a request at the endpoint: what was sent (the user id, and the record,
\* the query with its limit, or the content), through which handle, for
\* which call, and what came back
Request(kind, userId, handle, conversation, query, limit, content, call) ==
    [ kind |-> kind, userId |-> userId, handle |-> handle,
      conversation |-> conversation, query |-> query, limit |-> limit,
      content |-> content, call |-> call, status |-> "pending",
      memories |-> None, searchResult |-> None, failure |-> None,
      response |-> None ]

\* calls with call i set to c: a call that goes on, or a new one at the end
putCall(i, c) ==
    [ j \in 1..(IF i > Len(calls) THEN i ELSE Len(calls)) |-> IF j = i THEN c ELSE calls[j] ]

DirectCalls == { i \in 1..Len(calls) : calls[i].caller = "direct" }

\* ---------------------------------------------------------------- afterChat
ConversationMessage(role, content) == [role |-> role, content |-> content]

\* (variant: no filter, every message becomes a turn)
toConversationAllRoles(messages, assistantResponse) ==
    Append([i \in 1..Len(messages) |-> ConversationMessage(messages[i].role, messages[i].content)],
           ConversationMessage("assistant", assistantResponse))

\* the conversation record: user and assistant turns, reduced to role and
\* content, then the new assistant response
toConversation(messages, assistantResponse) ==
    LET kept == SelectSeq(messages, LAMBDA m : m.role = "user" \/ m.role = "assistant")
    IN  Append([i \in 1..Len(kept) |-> ConversationMessage(kept[i].role, kept[i].content)],
               ConversationMessage("assistant", assistantResponse))

errorMessage(failure) == IF failure.isError THEN failure.message ELSE "Unknown error"

\* (variant: one store in flight per user, a call that finds one pending
\* for its user sends nothing and reports success)
afterChatStoreDeduplicates(i, c, userId) ==
    /\ getClient(userId)
    /\ IF \E r \in 1..Len(requests) :
             /\ requests[r].kind = "extract" /\ requests[r].userId = userId
             /\ requests[r].status = "pending"
       THEN /\ UNCHANGED requests
            /\ calls' = putCall(i, [c EXCEPT !.pc = "returned", !.userId = userId,
                                        !.handle = Some(clientCache'[userId]),
                                        !.result = AfterChatResult(TRUE, None, None)])
       ELSE /\ requests' = Append(requests,
                   Request("extract", userId, clientCache'[userId],
                           toConversation(c.messages, c.text), "", 0, "", i))
            /\ calls' = putCall(i, [c EXCEPT !.pc = "awaitStore", !.userId = userId,
                                        !.handle = Some(clientCache'[userId])])

\* afterChat from getClient on, for the call c that becomes calls'[i]:
\* the handle, the record, and the extract request on its way
afterChatStore(i, c, userId) ==
    /\ getClient(userId)
    /\ requests' = Append(requests,
           Request("extract", userId, clientCache'[userId],
                   toConversation(c.messages, c.text), "", 0, "", i))
    /\ calls' = putCall(i, [c EXCEPT !.pc = "awaitStore", !.userId = userId,
                                !.handle = Some(clientCache'[userId])])

\* (variant: without the autoStore check)
afterChatAlwaysStores(caller, messages, assistantResponse, req, optUserId) ==
    LET i == Len(calls) + 1
        c == Call("afterChat", caller, messages, assistantResponse, req, optUserId, None)
    IN  IF Truthy(optUserId)
        THEN /\ afterChatStore(i, c, optUserId[1])
             /\ UNCHANGED extractorCalls
        ELSE /\ calls' = Append(calls, [c EXCEPT !.pc = "resolving"])
             /\ extractorCalls' = IF config.hasGetUserId /\ req.present
                                   THEN extractorCalls + 1 ELSE extractorCalls
             /\ UNCHANGED << clientCache, constructed, requests >>

\* (variant: the autoStore check comes after the user id and getClient)
afterChatChecksLate(caller, messages, assistantResponse, req, optUserId) ==
    LET i == Len(calls) + 1
        c == Call("afterChat", caller, messages, assistantResponse, req, optUserId, None)
    IN  IF Truthy(optUserId)
        THEN IF config.autoStore
             THEN /\ afterChatStore(i, c, optUserId[1])
                  /\ UNCHANGED extractorCalls
             ELSE /\ getClient(optUserId[1])
                  /\ calls' = Append(calls, [c EXCEPT !.pc = "returned",
                                                  !.userId = optUserId[1],
                                                  !.handle = Some(clientCache'[optUserId[1]]),
                                                  !.result = AfterChatResult(TRUE, None, None)])
                  /\ UNCHANGED << extractorCalls, requests >>
        ELSE /\ calls' = Append(calls, [c EXCEPT !.pc = "resolving"])
             /\ extractorCalls' = IF config.hasGetUserId /\ req.present
                                   THEN extractorCalls + 1 ELSE extractorCalls
             /\ UNCHANGED << clientCache, constructed, requests >>

\* afterChat up to its first suspension
afterChat(caller, messages, assistantResponse, req, optUserId) ==
    LET i == Len(calls) + 1
        c == Call("afterChat", caller, messages, assistantResponse, req, optUserId, None)
    IN  IF ~config.autoStore
        THEN /\ calls' = Append(calls, [c EXCEPT !.pc = "returned",
                                         !.result = AfterChatResult(TRUE, None, None)])
             /\ UNCHANGED << clientCache, constructed, extractorCalls, requests >>
        ELSE IF Truthy(optUserId)
        THEN /\ afterChatStore(i, c, optUserId[1])
             /\ UNCHANGED extractorCalls
        ELSE /\ calls' = Append(calls, [c EXCEPT !.pc = "resolving"])
             /\ extractorCalls' = IF config.hasGetUserId /\ req.present
                                   THEN extractorCalls + 1 ELSE extractorCalls
             /\ UNCHANGED << clientCache, constructed, requests >>

\* the application calls afterChat itself
DirectAfterChat ==
    /\ Cardinality(DirectCalls) < MaxCalls
    /\ \E req \in Requests, optUserId \in OptUserIds :
          afterChat("direct", chatMessages, "ok", req, optUserId)
    /\ UNCHANGED << inputVars, chatHistory, genVars, consumerVars >>

\* await resolveUserId(req) comes back: afterChat rejects with the
\* extractor's error, or goes on with the identity
AfterChatResolved ==
    /\ \E i \in 1..Len(calls) :
          /\ calls[i].op = "afterChat" /\ calls[i].pc = "resolving"
          /\ LET r == resolveUserId(calls[i].req)
             IN  IF r.ok
                 THEN afterChatStore(i, calls[i], r.value)
                 ELSE /\ calls' = [calls EXCEPT ![i].pc = "rejected", ![i].error = r.value]
                      /\ UNCHANGED << clientCache, constructed, requests >>
    /\ UNCHANGED << extractorCalls, inputVars, chatHistory, genVars, consumerVars >>

\* the extract request returns the extracted memories
StoreSucceeds ==
    /\ \E r \in 1..Len(requests), memories \in MemoryLists :
          /\ requests[r].kind = "extract" /\ requests[r].status = "pending"
          /\ requests' = [requests EXCEPT ![r].status = "ok", ![r].memories = Some(memories)]
          /\ calls' = [calls EXCEPT ![requests[r].call].pc = "returned",
                          ![requests[r].call].result = AfterChatResult(TRUE, Some(memories), None)]
    /\ UNCHANGED << clientCache, constructed, extractorCalls, inputVars, chatHistory, genVars, consumerVars >>

\* (variant: no try/catch around extractFromConversation)
StoreFailsRethrows ==
    /\ \E r \in 1..Len(requests), failure \in Failures :
          /\ requests[r].kind = "extract" /\ requests[r].status = "pending"
          /\ requests' = [requests EXCEPT ![r].status = "failed", ![r].failure = Some(failure)]
          /\ calls' = [calls EXCEPT ![requests[r].call].pc = "rejected",
                          ![requests[r].call].error = failure.message]
    /\ UNCHANGED << clientCache, constructed, extractorCalls, inputVars, chatHistory, genVars, consumerVars >>

\* the extract request fails: caught, reported in the result
StoreFails ==
    /\ \E r \in 1..Len(requests), failure \in Failures :
          /\ requests[r].kind = "extract" /\ requests[r].status = "pending"
          /\ requests' = [requests EXCEPT ![r].status = "failed", ![r].failure = Some(failure)]
          /\ calls' = [calls EXCEPT ![requests[r].call].pc = "returned",
                          ![requests[r].call].result =
                              AfterChatResult(FALSE, None, Some(errorMessage(failure)))]
    /\ UNCHANGED << clientCache, constructed, extractorCalls, inputVars, chatHistory, genVars, consumerVars >>

\* --------------------------------------------------------------- beforeChat
\* (variant: find without reverse, the first user message)
firstUserMessage(messages) ==
    LET users == { i \in 1..Len(messages) : messages[i].role = "user" }
    IN  IF users = {} THEN None
        ELSE Some(messages[CHOOSE i \in users : \A j \in users : i <= j])

\* [...messages].reverse().find(m => m.role === 'user')
lastUserMessage(messages) ==
    LET users == { i \in 1..Len(messages) : messages[i].role = "user" }
    IN  IF users = {} THEN None
        ELSE Some(messages[CHOOSE i \in users : \A j \in users : j <= i])

\* (variant: falls back on the last message of any role)
searchQueryAnyRole(messages, optQuery) ==
    IF Truthy(optQuery) THEN optQuery[1]
    ELSE IF Len(messages) > 0 THEN messages[Len(messages)].content
    ELSE ""

\* options?.query || lastUserMessage?.content || ''
searchQuery(messages, optQuery) ==
    IF Truthy(optQuery) THEN optQuery[1]
    ELSE IF lastUserMessage(messages) # None THEN lastUserMessage(messages)[1].content
    ELSE ""

RECURSIVE JoinLines(_)
\* lines.join('\n')
JoinLines(lines) ==
    IF lines = << >> THEN ""
    ELSE IF Len(lines) = 1 THEN lines[1]
    ELSE lines[1] \o "\n" \o JoinLines(Tail(lines))

\* result.facts && result.facts.length > 0
hasFacts(result) == result.facts # None /\ Len(result.facts[1]) > 0

\* (variant: the lines in reverse order)
formatContextReversed(result) ==
    IF hasFacts(result)
    THEN JoinLines([ i \in 1..Len(result.facts[1]) |->
                       "- " \o result.facts[1][Len(result.facts[1]) + 1 - i].text ])
    ELSE ""

\* context: one '- <text>' line per fact
formatContext(result) ==
    IF hasFacts(result)
    THEN JoinLines([ i \in 1..Len(result.facts[1]) |-> "- " \o result.facts[1][i].text ])
    ELSE ""

\* (variant: facts that carry no memory id are left out)
toMemoriesOnlyWithId(result) ==
    IF hasFacts(result)
    THEN LET withId == SelectSeq(result.facts[1], LAMBDA f : Truthy(f.memory_id))
         IN  [ i \in 1..Len(withId) |->
                 [ id |-> withId[i].memory_id[1], content |-> withId[i].text ] ]
    ELSE << >>

\* memories: the facts in Memory format
toMemories(result) ==
    IF hasFacts(result)
    THEN [ i \in 1..Len(result.facts[1]) |->
             [ id |-> IF Truthy(result.facts[1][i].memory_id)
                      THEN result.facts[1][i].memory_id[1] ELSE "",
               content |-> result.facts[1][i].text ] ]
    ELSE << >>

\* (variant: the context goes in front as a user message)
enhanceMessagesAsUserTurn(messages, context) ==
    IF context # "" /\ config.injectAsSystemMessage
    THEN << AIMessage(None, "user", config.systemMessagePrefix \o "\n" \o context) >>
         \o messages
    ELSE messages

\* (variant: the context message always goes in front)
enhanceMessagesAlwaysPrepend(messages, context) ==
    IF context # "" /\ config.injectAsSystemMessage
    THEN << AIMessage(None, "system", config.systemMessagePrefix \o "\n" \o context) >>
         \o messages
    ELSE messages

\* (variant: the first system message is rebuilt from role and content alone)
enhanceMessagesNoSpread(messages, context) ==
    IF context # "" /\ config.injectAsSystemMessage
    THEN LET contextMessage ==
                 AIMessage(None, "system", config.systemMessagePrefix \o "\n" \o context)
             systems == { i \in 1..Len(messages) : messages[i].role = "system" }
         IN  IF systems # {}
             THEN LET systemIndex == CHOOSE i \in systems : \A j \in systems : i <= j
                  IN  [ messages EXCEPT ![systemIndex] =
                            AIMessage(None, "system",
                                      @.content \o "\n\n" \o contextMessage.content) ]
             ELSE << contextMessage >> \o messages
    ELSE messages

\* (variant: the injectAsSystemMessage flag is not consulted)
enhanceMessagesIgnoresFlag(messages, context) ==
    IF context # ""
    THEN LET contextMessage ==
                 AIMessage(None, "system", config.systemMessagePrefix \o "\n" \o context)
             systems == { i \in 1..Len(messages) : messages[i].role = "system" }
         IN  IF systems # {}
             THEN LET systemIndex == CHOOSE i \in systems : \A j \in systems : i <= j
                  IN  [ messages EXCEPT ![systemIndex].content =
                                            @ \o "\n\n" \o contextMessage.content ]
             ELSE << contextMessage >> \o messages
    ELSE messages

\* enhancedMessages: a copy of messages, with the context message appended
\* to the first system message or put in front
enhanceMessages(messages, context) ==
    IF context # "" /\ config.injectAsSystemMessage
    THEN LET contextMessage ==
                 AIMessage(None, "system", config.systemMessagePrefix \o "\n" \o context)
             systems == { i \in 1..Len(messages) : messages[i].role = "system" }
         IN  IF systems # {}
             THEN LET systemIndex == CHOOSE i \in systems : \A j \in systems : i <= j
                  IN  [ messages EXCEPT ![systemIndex].content =
                                            @ \o "\n\n" \o contextMessage.content ]
             ELSE << contextMessage >> \o messages
    ELSE messages

\* (variant: context is injected once per user, later calls get plain messages)
beforeChatResultOncePerUser(c, userId, context, memories) ==
    IF \E i \in 1..Len(calls) :
          /\ calls[i].op = "beforeChat" /\ calls[i].pc = "returned"
          /\ calls[i].userId = userId /\ calls[i].before.context # ""
    THEN BeforeChatResult(context, memories, c.messages, userId)
    ELSE BeforeChatResult(context, memories, enhanceMessages(c.messages, context), userId)

\* beforeChat's return value for what the search gave (or for no search)
beforeChatResult(c, userId, context, memories) ==
    BeforeChatResult(context, memories, enhanceMessages(c.messages, context), userId)

\* (variant: const enhancedMessages = messages, the caller's own array)
aliasMessages(messages) == [array |-> "input", items |-> messages]

\* const enhancedMessages = [...messages]: a new array of the same messages
spreadMessages(messages) == [array |-> "new", items |-> messages]

\* the call c once beforeChat has returned: its result, which array
\* enhancedMessages is, and the caller's list after the writes of the
\* injection, which all go to enhancedMessages
beforeChatReturn(c, userId, context, memories) ==
    LET enhancedMessages == spreadMessages(c.messages)
        result == beforeChatResult(c, userId, context, memories)
    IN  [c EXCEPT !.pc = "returned", !.userId = userId, !.before = result,
                  !.enhancedArray = enhancedMessages.array,
                  !.inputAfter = IF enhancedMessages.array = "input"
                                 THEN result.enhancedMessages ELSE c.messages]

\* (variant: client.search(query), with Memphora.search's default limit)
beforeChatSearchDefaultLimit(i, c, userId) ==
    LET query == searchQuery(c.messages, c.optQuery)
    IN  /\ getClient(userId)
        /\ IF query # ""
           THEN /\ requests' = Append(requests,
                       Request("search", clientCache'[userId].userId, clientCache'[userId],
                               << >>, query, 5, "", i))
                /\ calls' = putCall(i, [c EXCEPT !.pc = "awaitSearch", !.userId = userId,
                                            !.handle = Some(clientCache'[userId])])
           ELSE /\ UNCHANGED requests
                /\ calls' = putCall(i, [beforeChatReturn(c, userId, "", << >>)
                                            EXCEPT !.handle = Some(clientCache'[userId])])

\* beforeChat from getClient on, for the call c that becomes calls'[i]: the
\* handle, the query, and the search request on its way if there is a query
beforeChatSearch(i, c, userId) ==
    LET query == searchQuery(c.messages, c.optQuery)
    IN  /\ getClient(userId)
        /\ IF query # ""
           THEN /\ requests' = Append(requests,
                       Request("search", clientCache'[userId].userId, clientCache'[userId],
                               << >>, query, config.maxMemories, "", i))
                /\ calls' = putCall(i, [c EXCEPT !.pc = "awaitSearch", !.userId = userId,
                                            !.handle = Some(clientCache'[userId])])
           ELSE /\ UNCHANGED requests
                /\ calls' = putCall(i, [beforeChatReturn(c, userId, "", << >>)
                                            EXCEPT !.handle = Some(clientCache'[userId])])

\* beforeChat up to its first suspension
beforeChat(caller, messages, req, optUserId, optQuery) ==
    LET i == Len(calls) + 1
        c == Call("beforeChat", caller, messages, "", req, optUserId, optQuery)
    IN  IF Truthy(optUserId)
        THEN /\ beforeChatSearch(i, c, optUserId[1])
             /\ UNCHANGED extractorCalls
        ELSE /\ calls' = Append(calls, [c EXCEPT !.pc = "resolving"])
             /\ extractorCalls' = IF config.hasGetUserId /\ req.present
                                   THEN extractorCalls + 1 ELSE extractorCalls
             /\ UNCHANGED << clientCache, constructed, requests >>

\* the application calls beforeChat
DirectBeforeChat ==
    /\ Cardinality(DirectCalls) < MaxCalls
    /\ \E req \in Requests, optUserId \in OptUserIds, optQuery \in OptQueries :
          beforeChat("direct", chatMessages, req, optUserId, optQuery)
    /\ UNCHANGED << inputVars, chatHistory, genVars, consumerVars >>

\* await resolveUserId(req) comes back in beforeChat
BeforeChatResolved ==
    /\ \E i \in 1..Len(calls) :
          /\ calls[i].op = "beforeChat" /\ calls[i].pc = "resolving"
          /\ LET r == resolveUserId(calls[i].req)
             IN  IF r.ok
                 THEN beforeChatSearch(i, calls[i], r.value)
                 ELSE /\ calls' = [calls EXCEPT ![i].pc = "rejected", ![i].error = r.value]
                      /\ UNCHANGED << clientCache, constructed, requests >>
    /\ UNCHANGED << extractorCalls, inputVars, chatHistory, genVars, consumerVars >>

\* (variant: no try/catch around client.search)
SearchFailsRethrows ==
    /\ \E r \in 1..Len(requests), failure \in Failures :
          /\ requests[r].kind = "search" /\ requests[r].status = "pending"
          /\ calls[requests[r].call].op = "beforeChat"
          /\ requests' = [requests EXCEPT ![r].status = "failed", ![r].failure = Some(failure)]
          /\ calls' = [calls EXCEPT ![requests[r].call].pc = "rejected",
                          ![requests[r].call].error = failure.message]
    /\ UNCHANGED << clientCache, constructed, extractorCalls, inputVars, chatHistory, genVars, consumerVars >>

\* the search request returns: context and memories from its facts, then
\* the enhanced messages
SearchSucceeds ==
    /\ \E r \in 1..Len(requests), result \in SearchResults :
          /\ requests[r].kind = "search" /\ requests[r].status = "pending"
          /\ calls[requests[r].call].op = "beforeChat"
          /\ requests' = [requests EXCEPT ![r].status = "ok", ![r].searchResult = Some(result)]
          /\ LET c == calls[requests[r].call]
             IN  calls' = [calls EXCEPT ![requests[r].call] =
                                 beforeChatReturn(c, c.userId, formatContext(result),
                                                  toMemories(result))]
    /\ UNCHANGED << clientCache, constructed, extractorCalls, inputVars, chatHistory, genVars, consumerVars >>

\* the search request fails: caught, context and memories stay empty
SearchFails ==
    /\ \E r \in 1..Len(requests), failure \in Failures :
          /\ requests[r].kind = "search" /\ requests[r].status = "pending"
          /\ calls[requests[r].call].op = "beforeChat"
          /\ requests' = [requests EXCEPT ![r].status = "failed", ![r].failure = Some(failure)]
          /\ LET c == calls[requests[r].call]
             IN  calls' = [calls EXCEPT ![requests[r].call] =
                                 beforeChatReturn(c, c.userId, "", << >>)]
    /\ UNCHANGED << clientCache, constructed, extractorCalls, inputVars, chatHistory, genVars, consumerVars >>

\* the query overrides repeated calls carry: none, a query, the empty string
RepeatQueries == { None, Some("favorite color"), Some("") }

\* the application calls beforeChat again on its message list
RepeatBeforeChat ==
    /\ Len(calls) < MaxRepeat
    /\ \E optQuery \in RepeatQueries :
          beforeChat("direct", chatMessages, NoReq, None, optQuery)
    /\ UNCHANGED << inputVars, chatHistory, genVars, consumerVars >>

\* ------------------------------------------------------------ one chat turn
\* the application calls beforeChat on its message list
TurnBeforeChat ==
    /\ Cardinality({ i \in 1..Len(calls) : calls[i].op = "beforeChat" }) < MaxCalls
    /\ beforeChat("direct", chatMessages, NoReq, None, None)
    /\ UNCHANGED << inputVars, chatHistory, genVars, consumerVars >>

\* the application calls afterChat with the enhancedMessages a beforeChat
\* call returned (the list it gave the model) and the model's response
TurnAfterChat ==
    /\ Cardinality({ i \in 1..Len(calls) : calls[i].op = "afterChat" }) < MaxCalls
    /\ \E i \in 1..Len(calls) :
          /\ calls[i].op = "beforeChat" /\ calls[i].pc = "returned"
          /\ afterChat("direct", calls[i].before.enhancedMessages, "ok", NoReq, None)
    /\ UNCHANGED << inputVars, chatHistory, genVars, consumerVars >>

\* --------------------------------------------------------------- getContext
\* the inputs of direct getContext and store calls
ContextQueries == { "favorite color", "" }
StoreContents == { "likes tea" }

\* getContext from getClient on: the search request for the query as given
getContextSearch(i, c, userId) ==
    /\ getClient(userId)
    /\ requests' = Append(requests,
           Request("search", clientCache'[userId].userId, clientCache'[userId],
                   << >>, c.text, config.maxMemories, "", i))
    /\ calls' = putCall(i, [c EXCEPT !.pc = "awaitSearch", !.userId = userId,
                                !.handle = Some(clientCache'[userId])])

\* getContext up to its first suspension
getContext(caller, query, req, optUserId) ==
    LET i == Len(calls) + 1
        c == Call("getContext", caller, << >>, query, req, optUserId, None)
    IN  IF Truthy(optUserId)
        THEN /\ getContextSearch(i, c, optUserId[1])
             /\ UNCHANGED extractorCalls
        ELSE /\ calls' = Append(calls, [c EXCEPT !.pc = "resolving"])
             /\ extractorCalls' = IF config.hasGetUserId /\ req.present
                                   THEN extractorCalls + 1 ELSE extractorCalls
             /\ UNCHANGED << clientCache, constructed, requests >>

\* the application calls getContext
DirectGetContext ==
    /\ Cardinality(DirectCalls) < MaxCalls
    /\ \E query \in ContextQueries, req \in Requests, optUserId \in OptUserIds :
          getContext("direct", query, req, optUserId)
    /\ UNCHANGED << inputVars, chatHistory, genVars, consumerVars >>

\* await resolveUserId(req) comes back in getContext
GetContextResolved ==
    /\ \E i \in 1..Len(calls) :
          /\ calls[i].op = "getContext" /\ calls[i].pc = "resolving"
          /\ LET r == resolveUserId(calls[i].req)
             IN  IF r.ok
                 THEN getContextSearch(i, calls[i], r.value)
                 ELSE /\ calls' = [calls EXCEPT ![i].pc = "rejected", ![i].error = r.value]
                      /\ UNCHANGED << clientCache, constructed, requests >>
    /\ UNCHANGED << extractorCalls, inputVars, chatHistory, genVars, consumerVars >>

\* getContext's return value { context, memories }
ContextResult(context, memories) == BeforeChatResult(context, memories, << >>, "")

\* getContext's search returns: context and memories from its facts
ContextSearchSucceeds ==
    /\ \E r \in 1..Len(requests), result \in SearchResults :
          /\ requests[r].kind = "search" /\ requests[r].status = "pending"
          /\ calls[requests[r].call].op = "getContext"
          /\ requests' = [requests EXCEPT ![r].status = "ok", ![r].searchResult = Some(result)]
          /\ calls' = [calls EXCEPT ![requests[r].call].pc = "returned",
                          ![requests[r].call].before =
                              ContextResult(formatContext(result), toMemories(result))]
    /\ UNCHANGED << clientCache, constructed, extractorCalls, inputVars, chatHistory, genVars, consumerVars >>

\* (variant: no try/catch around client.search in getContext)
ContextSearchFailsRethrows ==
    /\ \E r \in 1..Len(requests), failure \in Failures :
          /\ requests[r].kind = "search" /\ requests[r].status = "pending"
          /\ calls[requests[r].call].op = "getContext"
          /\ requests' = [requests EXCEPT ![r].status = "failed", ![r].failure = Some(failure)]
          /\ calls' = [calls EXCEPT ![requests[r].call].pc = "rejected",
                          ![requests[r].call].error = failure.message]
    /\ UNCHANGED << clientCache, constructed, extractorCalls, inputVars, chatHistory, genVars, consumerVars >>

\* getContext's search fails: caught, { context: '', memories: [] }
ContextSearchFails ==
    /\ \E r \in 1..Len(requests), failure \in Failures :
          /\ requests[r].kind = "search" /\ requests[r].status = "pending"
          /\ calls[requests[r].call].op = "getContext"
          /\ requests' = [requests EXCEPT ![r].status = "failed", ![r].failure = Some(failure)]
          /\ calls' = [calls EXCEPT ![requests[r].call].pc = "returned",
                          ![requests[r].call].before = ContextResult("", << >>)]
    /\ UNCHANGED << clientCache, constructed, extractorCalls, inputVars, chatHistory, genVars, consumerVars >>

\* -------------------------------------------------------------------- store
\* the Memory the endpoint answers a store with
StoredMemory(userId, content) == [id |-> "mem9", user_id |-> userId, content |-> content]

\* store from getClient on: client.store(content, metadata), the addMemory
\* request under the handle's user id
storeSend(i, c, userId) ==
    /\ getClient(userId)
    /\ requests' = Append(requests,
           Request("store", clientCache'[userId].userId, clientCache'[userId],
                   << >>, "", 0, c.text, i))
    /\ calls' = putCall(i, [c EXCEPT !.pc = "awaitStore", !.userId = userId,
                                !.handle = Some(clientCache'[userId])])

\* store up to its first suspension
store(caller, content, req, optUserId) ==
    LET i == Len(calls) + 1
        c == Call("store", caller, << >>, content, req, optUserId, None)
    IN  IF Truthy(optUserId)
        THEN /\ storeSend(i, c, optUserId[1])
             /\ UNCHANGED extractorCalls
        ELSE /\ calls' = Append(calls, [c EXCEPT !.pc = "resolving"])
             /\ extractorCalls' = IF config.hasGetUserId /\ req.present
                                   THEN extractorCalls + 1 ELSE extractorCalls
             /\ UNCHANGED << clientCache, constructed, requests >>

\* the application calls store
DirectStore ==
    /\ Cardinality(DirectCalls) < MaxCalls
    /\ \E content \in StoreContents, req \in Requests, optUserId \in OptUserIds :
          store("direct", content, req, optUserId)
    /\ UNCHANGED << inputVars, chatHistory, genVars, consumerVars >>

\* await resolveUserId(req) comes back in store
StoreResolved ==
    /\ \E i \in 1..Len(calls) :
          /\ calls[i].op = "store" /\ calls[i].pc = "resolving"
          /\ LET r == resolveUserId(calls[i].req)
             IN  IF r.ok
                 THEN storeSend(i, calls[i], r.value)
                 ELSE /\ calls' = [calls EXCEPT ![i].pc = "rejected", ![i].error = r.value]
                      /\ UNCHANGED << clientCache, constructed, requests >>
    /\ UNCHANGED << extractorCalls, inputVars, chatHistory, genVars, consumerVars >>

\* the addMemory request returns the stored Memory
MemoryStored ==
    /\ \E r \in 1..Len(requests) :
          /\ requests[r].kind = "store" /\ requests[r].status = "pending"
          /\ requests' = [requests EXCEPT ![r].status = "ok"]
          /\ calls' = [calls EXCEPT ![requests[r].call].pc = "returned",
                          ![requests[r].call].memory =
                              Some(StoredMemory(requests[r].userId, requests[r].content))]
    /\ UNCHANGED << clientCache, constructed, extractorCalls, inputVars, chatHistory, genVars, consumerVars >>

\* the addMemory request fails: caught, store returns null
MemoryStoreFails ==
    /\ \E r \in 1..Len(requests), failure \in Failures :
          /\ requests[r].kind = "store" /\ requests[r].status = "pending"
          /\ requests' = [requests EXCEPT ![r].status = "failed", ![r].failure = Some(failure)]
          /\ calls' = [calls EXCEPT ![requests[r].call].pc = "returned",
                          ![requests[r].call].memory = None]
    /\ UNCHANGED << clientCache, constructed, extractorCalls, inputVars, chatHistory, genVars, consumerVars >>

\* ------------------------------------------------- calls racing for handles
\* the identities racing calls carry: an override that is absent, a user or
\* the empty string; no request, or one the extractor maps to a user or to
\* the empty string
RaceUserIds == { None, Some("alice"), Some("") }
RaceRequests == { NoReq, Req(TRUE, "alice", FALSE), Req(TRUE, "", FALSE) }
RaceClientIds == { "alice", "anonymous", "" }

\* the application starts a call while others are in flight
RaceBeforeChat ==
    /\ Len(calls) < MaxRace
    /\ \E req \in RaceRequests, optUserId \in RaceUserIds :
          beforeChat("direct", chatMessages, req, optUserId, None)
    /\ UNCHANGED << inputVars, chatHistory, genVars, consumerVars >>

RaceAfterChat ==
    /\ Len(calls) < MaxRace
    /\ \E req \in RaceRequests, optUserId \in RaceUserIds :
          afterChat("direct", chatMessages, "ok", req, optUserId)
    /\ UNCHANGED << inputVars, chatHistory, genVars, consumerVars >>

RaceGetContext ==
    /\ Len(calls) < MaxRace
    /\ \E req \in RaceRequests, optUserId \in RaceUserIds :
          getContext("direct", "favorite color", req, optUserId)
    /\ UNCHANGED << inputVars, chatHistory, genVars, consumerVars >>

RaceStore ==
    /\ Len(calls) < MaxRace
    /\ \E req \in RaceRequests, optUserId \in RaceUserIds :
          store("direct", "likes tea", req, optUserId)
    /\ UNCHANGED << inputVars, chatHistory, genVars, consumerVars >>

\* the application calls afterChat while other afterChat calls are in flight
ConcurrentAfterChat ==
    /\ Len(calls) < MaxRace
    /\ \E optUserId \in OptUserIds :
          afterChat("direct", chatMessages, "ok", NoReq, optUserId)
    /\ UNCHANGED << inputVars, chatHistory, genVars, consumerVars >>

\* the application calls the middleware's getClient itself
RaceGetClient ==
    /\ Len(calls) < MaxRace
    /\ \E userId \in RaceClientIds :
          /\ getClient(userId)
          /\ calls' = Append(calls,
                 [Call("getClient", "direct", << >>, "", NoReq, Some(userId), None)
                    EXCEPT !.pc = "returned", !.userId = userId,
                           !.handle = Some(clientCache'[userId])])
    /\ UNCHANGED << extractorCalls, requests, inputVars, chatHistory, genVars, consumerVars >>

\* ---------------------------------------------------- MemoryClient.request
\* what fetch resolves with: status, statusText, and a body that is JSON (an
\* object that may have an error and a detail field) or is not (empty, HTML)
JsonBody(error, detail) == [json |-> TRUE, error |-> error, detail |-> detail]
NotJson == [json |-> FALSE, error |-> None, detail |-> None]
Response(status, statusText, body) ==
    [status |-> status, statusText |-> statusText, body |-> body]

BodyTexts == { None, Some(""), Some("Invalid API key") }
Bodies == { NotJson } \cup { JsonBody(e, d) : e \in BodyTexts, d \in BodyTexts }
Statuses ==
    { << 200, "OK" >>, << 204, "No Content" >>, << 401, "Unauthorized" >>,
      << 500, "Internal Server Error" >> }
\* (an HTTP/2 response has an empty statusText)
Responses ==
    UNION { { Response(st[1], t, b) : t \in { "", st[2] }, b \in Bodies } : st \in Statuses }

\* response.ok
responseOk(response) == response.status >= 200 /\ response.status <= 299

\* what request() settles with
Returns == [ok |-> TRUE, failure |-> None]
Throws(message) == [ok |-> FALSE, failure |-> Some(Failure(TRUE, message))]

\* (variant: the message is always the status line)
requestStatusLineOnly(response) ==
    IF ~responseOk(response)
    THEN Throws("HTTP " \o ToString(response.status) \o ": " \o response.statusText)
    ELSE IF response.body.json THEN Returns
    ELSE Throws("Unexpected end of JSON input")

\* request(), from the response on: on !response.ok the body is parsed
\* (falling back on { error: statusText }) and an Error is thrown with
\* error.error || error.detail || the status line; else response.json() is
\* returned, which rejects when the body is no JSON
request(response) ==
    IF ~responseOk(response)
    THEN LET error == IF response.body.json THEN response.body
                      ELSE JsonBody(Some(response.statusText), None)
         IN  IF Truthy(error.error) THEN Throws(error.error[1])
             ELSE IF Truthy(error.detail) THEN Throws(error.detail[1])
             ELSE Throws("HTTP " \o ToString(response.status) \o ": " \o response.statusText)
    ELSE IF response.body.json THEN Returns
    ELSE Throws("Unexpected end of JSON input")

\* the application uses a handle's rawClient itself: a request goes out
RawRequest ==
    /\ Len(requests) < MaxCalls
    /\ getClient("alice")
    /\ \E kind \in { "search", "extract" } :
          requests' = Append(requests,
              Request(kind, "alice", clientCache'["alice"], << >>, "", 0, "", 0))
    /\ UNCHANGED << extractorCalls, calls, inputVars, chatHistory, genVars, consumerVars >>

\* fetch resolves with a response and request() settles
FetchResponds ==
    /\ \E r \in 1..Len(requests), response \in Responses :
          /\ requests[r].status = "pending"
          /\ requests' = [requests EXCEPT
                 ![r].response = Some(response),
                 ![r].status = IF request(response).ok THEN "ok" ELSE "failed",
                 ![r].failure = request(response).failure]
    /\ UNCHANGED << clientCache, constructed, extractorCalls, calls, inputVars, chatHistory, genVars,
                    consumerVars >>

\* ------------------------------------------------------- wrapStreamWithMemory
Pending == [state |-> "pending", value |-> NoResult]
\* (variant: the promise takes the value of every resolve call)
resolveMemoryOverwrites(promise, result) == [state |-> "fulfilled", value |-> result]

\* resolveMemory: the promise's resolve function; a settled promise keeps
\* its value
resolveMemory(promise, result) ==
    IF promise.state = "pending" THEN [state |-> "fulfilled", value |-> result] ELSE promise

Completion(type, error) == [type |-> type, error |-> error]

\* how the consumer's loop ended: end of stream, its own break, or an error
\* thrown at it, and the call (next or return) that told it
Outcome(type, error, via) == [type |-> type, error |-> error, via |-> via]

\* the consumer's for await asks for the next value: the generator body runs
\* (from its start, or on from the yield) up to the inner loop's stream.next()
ConsumerNext ==
    /\ consumerPc \in {"init", "body"}
    /\ genPc \in {"suspendedStart", "suspendedYield"}
    /\ consumerPc' = "waitNext"
    /\ genPc' = "awaitNext"
    /\ UNCHANGED << inputVars, chatHistory, mwVars, pulled, fullResponse, memoryPromise, completion,
                    streamCall, consumed, consumerOutcome >>

\* (variant: yield chunk first, then fullResponse += content when the
\* consumer comes back: the text of a chunk is added one chunk late)
PullChunkLagging ==
    /\ genPc = "awaitNext"
    /\ pulled < Len(stream.chunks)
    /\ pulled' = pulled + 1
    /\ fullResponse' = IF pulled = 0 THEN fullResponse
                        ELSE fullResponse \o chunkContent(stream.chunks[pulled])
    /\ genPc' = "yielding"
    /\ UNCHANGED << inputVars, chatHistory, mwVars, memoryPromise, completion, streamCall, consumerVars >>

\* (variant: fullResponse = content)
PullChunkAssign ==
    /\ genPc = "awaitNext"
    /\ pulled < Len(stream.chunks)
    /\ pulled' = pulled + 1
    /\ fullResponse' = chunkContent(stream.chunks[pulled + 1])
    /\ genPc' = "yielding"
    /\ UNCHANGED << inputVars, chatHistory, mwVars, memoryPromise, completion, streamCall, consumerVars >>

\* the producer delivers a chunk: fullResponse += content
PullChunk ==
    /\ genPc = "awaitNext"
    /\ pulled < Len(stream.chunks)
    /\ pulled' = pulled + 1
    /\ fullResponse' = fullResponse \o chunkContent(stream.chunks[pulled + 1])
    /\ genPc' = "yielding"
    /\ UNCHANGED << inputVars, chatHistory, mwVars, memoryPromise, completion, streamCall, consumerVars >>

\* (variant: yield content, the extracted text, in place of the chunk)
YieldChunkText ==
    /\ genPc = "yielding"
    /\ consumed' = Append(consumed, Chunk(None, None, Some(chunkContent(stream.chunks[pulled]))))
    /\ consumerPc' = "body"
    /\ genPc' = "suspendedYield"
    /\ UNCHANGED << inputVars, chatHistory, mwVars, pulled, fullResponse, memoryPromise, completion,
                    streamCall, consumerOutcome >>

\* yield chunk: the consumer's next() resolves with the chunk
YieldChunk ==
    /\ genPc = "yielding"
    /\ consumed' = Append(consumed, stream.chunks[pulled])
    /\ consumerPc' = "body"
    /\ genPc' = "suspendedYield"
    /\ UNCHANGED << inputVars, chatHistory, mwVars, pulled, fullResponse, memoryPromise, completion,
                    streamCall, consumerOutcome >>

\* the producer is exhausted: the inner loop ends, on to finally
ProducerDone ==
    /\ genPc = "awaitNext"
    /\ pulled = Len(stream.chunks) /\ stream.end = "done"
    /\ completion' = Completion("normal", "")
    /\ genPc' = "finally"
    /\ UNCHANGED << inputVars, chatHistory, mwVars, pulled, fullResponse, memoryPromise, streamCall,
                    consumerVars >>

\* (variant: afterChat after the loop, without try/finally)
ProducerThrowsNoFinally ==
    /\ genPc = "awaitNext"
    /\ pulled = Len(stream.chunks) /\ stream.end = "throw"
    /\ completion' = Completion("throw", ProducerError)
    /\ genPc' = "completed"
    /\ UNCHANGED << inputVars, chatHistory, mwVars, pulled, fullResponse, memoryPromise, streamCall,
                    consumerVars >>

\* the producer throws: the error leaves the try block, on to finally
ProducerThrows ==
    /\ genPc = "awaitNext"
    /\ pulled = Len(stream.chunks) /\ stream.end = "throw"
    /\ completion' = Completion("throw", ProducerError)
    /\ genPc' = "finally"
    /\ UNCHANGED << inputVars, chatHistory, mwVars, pulled, fullResponse, memoryPromise, streamCall,
                    consumerVars >>

\* the consumer leaves its loop early: return() resumes the generator at
\* the yield with a return completion, which closes the inner loop
ConsumerBreak ==
    /\ consumerPc = "body"
    /\ genPc = "suspendedYield"
    /\ consumerPc' = "waitReturn"
    /\ completion' = Completion("return", "")
    /\ genPc' = "closing"
    /\ UNCHANGED << inputVars, chatHistory, mwVars, pulled, fullResponse, memoryPromise, streamCall,
                    consumed, consumerOutcome >>

\* the inner for await closes the producer: stream.return() comes back
CloseProducer ==
    /\ genPc = "closing"
    /\ genPc' = "finally"
    /\ UNCHANGED << inputVars, chatHistory, mwVars, pulled, fullResponse, memoryPromise, completion,
                    streamCall, consumerVars >>

\* ... or stream.return() throws, and that error leaves the try block
CloseProducerThrows ==
    /\ genPc = "closing"
    /\ completion' = Completion("throw", ReturnError)
    /\ genPc' = "finally"
    /\ UNCHANGED << inputVars, chatHistory, mwVars, pulled, fullResponse, memoryPromise, streamCall,
                    consumerVars >>

\* (variant: afterChat is started in finally but not awaited)
GenFinallyDetached ==
    /\ genPc = "finally"
    /\ afterChat("stream", chatMessages, fullResponse, NoReq, Some(wrapUserId))
    /\ streamCall' = Len(calls) + 1
    /\ genPc' = "completed"
    /\ UNCHANGED << inputVars, chatHistory, pulled, fullResponse, memoryPromise, completion, consumerVars >>

\* (variant: resolveMemory({ success: true }) before afterChat is awaited)
GenFinallyResolveFirst ==
    /\ genPc = "finally"
    /\ afterChat("stream", chatMessages, fullResponse, NoReq, Some(wrapUserId))
    /\ streamCall' = Len(calls) + 1
    /\ memoryPromise' = resolveMemory(memoryPromise, AfterChatResult(TRUE, None, None))
    /\ genPc' = "awaitAfterChat"
    /\ UNCHANGED << inputVars, chatHistory, pulled, fullResponse, completion, consumerVars >>

\* (variant: if (fullResponse) around the afterChat call)
GenFinallySkipsEmpty ==
    /\ genPc = "finally"
    /\ IF fullResponse # ""
       THEN /\ afterChat("stream", chatMessages, fullResponse, NoReq, Some(wrapUserId))
            /\ streamCall' = Len(calls) + 1
            /\ genPc' = "awaitAfterChat"
            /\ UNCHANGED memoryPromise
       ELSE /\ memoryPromise' = resolveMemory(memoryPromise, AfterChatResult(TRUE, None, None))
            /\ genPc' = "completed"
            /\ UNCHANGED << mwVars, streamCall >>
    /\ UNCHANGED << inputVars, chatHistory, pulled, fullResponse, completion, consumerVars >>

\* finally: memphora.afterChat(messages, fullResponse, undefined, { userId })
GenFinally ==
    /\ genPc = "finally"
    /\ afterChat("stream", chatMessages, fullResponse, NoReq, Some(wrapUserId))
    /\ streamCall' = Len(calls) + 1
    /\ genPc' = "awaitAfterChat"
    /\ UNCHANGED << inputVars, chatHistory, pulled, fullResponse, memoryPromise, completion, consumerVars >>

\* (variant: a return in the finally block, which drops the pending error)
FinallySettleSwallows ==
    /\ genPc = "awaitAfterChat"
    /\ calls[streamCall].pc \in {"returned", "rejected"}
    /\ memoryPromise' = resolveMemory(memoryPromise, calls[streamCall].result)
    /\ completion' = IF completion.type = "throw" THEN Completion("normal", "") ELSE completion
    /\ genPc' = "completed"
    /\ UNCHANGED << inputVars, chatHistory, mwVars, pulled, fullResponse, streamCall, consumerVars >>

\* (variant: if (result.success) resolveMemory(result))
FinallySettleOnSuccess ==
    /\ genPc = "awaitAfterChat"
    /\ calls[streamCall].pc \in {"returned", "rejected"}
    /\ memoryPromise' = IF calls[streamCall].result.success
                        THEN resolveMemory(memoryPromise, calls[streamCall].result)
                        ELSE memoryPromise
    /\ genPc' = "completed"
    /\ UNCHANGED << inputVars, chatHistory, mwVars, pulled, fullResponse, completion, streamCall, consumerVars >>

\* the await in finally comes back: resolveMemory(result) and the generator
\* completes with the try block's completion; had afterChat rejected, its
\* error would replace that completion and resolveMemory would not run
FinallySettle ==
    /\ genPc = "awaitAfterChat"
    /\ calls[streamCall].pc \in {"returned", "rejected"}
    /\ IF calls[streamCall].pc = "returned"
       THEN /\ memoryPromise' = resolveMemory(memoryPromise, calls[streamCall].result)
            /\ UNCHANGED completion
       ELSE /\ completion' = Completion("throw", calls[streamCall].error)
            /\ UNCHANGED memoryPromise
    /\ genPc' = "completed"
    /\ UNCHANGED << inputVars, chatHistory, mwVars, pulled, fullResponse, streamCall, consumerVars >>

\* the consumer's pending next() or return() settles: its loop is over
ConsumerObserveEnd ==
    /\ genPc = "completed"
    /\ consumerPc \in {"waitNext", "waitReturn"}
    /\ consumerOutcome' =
          IF completion.type = "throw" THEN Outcome("throw", completion.error, consumerPc)
          ELSE IF consumerPc = "waitNext" THEN Outcome("done", "", consumerPc)
          ELSE Outcome("break", "", consumerPc)
    /\ consumerPc' = "ended"
    /\ UNCHANGED << inputVars, chatHistory, mwVars, genVars, consumed >>

\* the application iterates the wrapped object again, once the earlier pass
\* is over: [Symbol.asyncIterator]() makes a new generator over the same
\* closure (fullResponse, resolveMemory) and the same underlying stream,
\* which either starts over or, being a finished generator, has nothing left
Reiterate ==
    /\ consumerPc = "ended" /\ genPc = "completed"
    /\ Cardinality({ i \in 1..Len(calls) : calls[i].caller = "stream" }) <= MaxCalls
    /\ \E startsOver \in BOOLEAN :
          stream' = IF startsOver THEN stream ELSE [chunks |-> << >>, end |-> "done"]
    /\ pulled' = 0
    /\ genPc' = "suspendedStart"
    /\ completion' = Completion("none", "")
    /\ consumerPc' = "init"
    /\ consumed' = << >>
    /\ consumerOutcome' = Outcome("none", "", "init")
    /\ UNCHANGED << config, chatMessages, wrapUserId, mwVars, fullResponse, memoryPromise,
                    streamCall, chatHistory >>

\* return() on a generator that was never started: it completes at once,
\* its body, the finally block included, does not run
ReturnBeforeStart ==
    /\ consumerPc = "init" /\ genPc = "suspendedStart"
    /\ completion' = Completion("return", "")
    /\ genPc' = "completed"
    /\ consumerPc' = "ended"
    /\ consumerOutcome' = Outcome("break", "", "waitReturn")
    /\ UNCHANGED << inputVars, chatHistory, mwVars, pulled, fullResponse, memoryPromise, streamCall,
                    consumed >>

\* the README's usage: await wrappedStream.memoryPromise right after wrapping,
\* before the stream is read
ConsumerAwaitHandle ==
    /\ consumerPc = "init"
    /\ consumerPc' = "awaitHandle"
    /\ UNCHANGED << inputVars, chatHistory, mwVars, genVars, consumed, consumerOutcome >>

\* ------------------------------------------------------- Memphora.remember
\* JavaScript values a wrapped function is called with and returns: strings,
\* numbers and undefined
JsString(s) == [type |-> "string", s |-> s, n |-> 0]
JsNumber(n) == [type |-> "number", s |-> "", n |-> n]
Undefined == [type |-> "undefined", s |-> "", n |-> 0]
\* ToBoolean
truthy(v) == (v.type = "string" /\ v.s # "") \/ (v.type = "number" /\ v.n # 0)
\* String(v)
String(v) ==
    IF v.type = "string" THEN v.s
    ELSE IF v.type = "number" THEN ToString(v.n)
    ELSE "undefined"

RememberArgs == { JsString("hi"), JsString("my name is Ann"), JsString(""), JsNumber(7) }
FnResults == { JsString("hello"), JsString(""), JsNumber(42), JsNumber(0), Undefined }
FnFailure == Failure(TRUE, "fn failed")

\* the application's own handle, new Memphora({ userId, apiKey })
ownMemphora == Memphora("alice", 0)

\* const userMessage = typeof args[0] === 'string' ? args[0] : null
userMessageOf(arg) == IF arg.type = "string" THEN Some(arg.s) ELSE None

\* Memphora.getContext's return value for a search result
memphoraContext(result) ==
    IF hasFacts(result)
    THEN "Relevant context from past conversations:\n" \o formatContext(result)
    ELSE ""

\* a call of a function wrapped by remember: its first argument, how often
\* the wrapped function was invoked, what it returned, the context retrieved
\* for it and what the call threw
RememberCall(arg) ==
    [ op |-> "remember", caller |-> "direct", arg |-> arg, pc |-> "start",
      handle |-> Some(ownMemphora), userId |-> ownMemphora.userId,
      context |-> "", fnCalls |-> 0, fnResult |-> Undefined, thrown |-> None ]

\* the wrapped function is called: with a truthy userMessage
\* this.getContext(userMessage) sends its search, else fn is next
remember ==
    /\ Cardinality(DirectCalls) < MaxCalls
    /\ \E arg \in RememberArgs :
          LET i == Len(calls) + 1
              c == RememberCall(arg)
          IN  IF Truthy(userMessageOf(arg))
              THEN /\ requests' = Append(requests,
                          Request("search", ownMemphora.userId, ownMemphora, << >>,
                                  userMessageOf(arg)[1], 5, "", i))
                   /\ calls' = Append(calls, [c EXCEPT !.pc = "awaitContext"])
              ELSE /\ calls' = Append(calls, [c EXCEPT !.pc = "callFn"])
                   /\ UNCHANGED requests
    /\ UNCHANGED << clientCache, constructed, extractorCalls, inputVars, chatHistory, genVars, consumerVars >>

\* the search of getContext returns: context is set, fn is next
RememberContextSucceeds ==
    /\ \E r \in 1..Len(requests), result \in SearchResults :
          /\ requests[r].kind = "search" /\ requests[r].status = "pending"
          /\ calls[requests[r].call].op = "remember"
          /\ requests' = [requests EXCEPT ![r].status = "ok", ![r].searchResult = Some(result)]
          /\ calls' = [calls EXCEPT ![requests[r].call].pc = "callFn",
                          ![requests[r].call].context = memphoraContext(result)]
    /\ UNCHANGED << clientCache, constructed, extractorCalls, inputVars, chatHistory, genVars, consumerVars >>

\* (variant: try/catch around getContext, a failed search leaves context '')
RememberContextFailsDegrades ==
    /\ \E r \in 1..Len(requests), failure \in Failures :
          /\ requests[r].kind = "search" /\ requests[r].status = "pending"
          /\ calls[requests[r].call].op = "remember"
          /\ requests' = [requests EXCEPT ![r].status = "failed", ![r].failure = Some(failure)]
          /\ calls' = [calls EXCEPT ![requests[r].call].pc = "callFn"]
    /\ UNCHANGED << clientCache, constructed, extractorCalls, inputVars, chatHistory, genVars, consumerVars >>

\* the search of getContext fails: nothing catches it, the call rejects
RememberContextFails ==
    /\ \E r \in 1..Len(requests), failure \in Failures :
          /\ requests[r].kind = "search" /\ requests[r].status = "pending"
          /\ calls[requests[r].call].op = "remember"
          /\ requests' = [requests EXCEPT ![r].status = "failed", ![r].failure = Some(failure)]
          /\ calls' = [calls EXCEPT ![requests[r].call].pc = "rejected",
                          ![requests[r].call].thrown = Some(failure)]
    /\ UNCHANGED << clientCache, constructed, extractorCalls, inputVars, chatHistory, genVars, consumerVars >>

\* const result = await fn(...args); with a truthy userMessage and a truthy
\* result storeConversation(userMessage, String(result)) sends its request,
\* else the call returns result
RememberFnReturns ==
    /\ \E i \in 1..Len(calls), result \in FnResults :
          /\ calls[i].op = "remember" /\ calls[i].pc = "callFn"
          /\ LET c == [calls[i] EXCEPT !.fnCalls = @ + 1, !.fnResult = result]
                 userMessage == userMessageOf(c.arg)
             IN  IF Truthy(userMessage) /\ truthy(result)
                 THEN /\ requests' = Append(requests,
                             Request("extract", ownMemphora.userId, ownMemphora,
                                     << ConversationMessage("user", userMessage[1]),
                                        ConversationMessage("assistant", String(result)) >>,
                                     "", 0, "", i))
                      /\ calls' = [calls EXCEPT ![i] = [c EXCEPT !.pc = "awaitStore"]]
                 ELSE /\ calls' = [calls EXCEPT ![i] = [c EXCEPT !.pc = "returned"]]
                      /\ UNCHANGED requests
    /\ UNCHANGED << clientCache, constructed, extractorCalls, inputVars, chatHistory, genVars, consumerVars >>

\* fn throws or rejects: the call rejects with what it threw
RememberFnThrows ==
    /\ \E i \in 1..Len(calls) :
          /\ calls[i].op = "remember" /\ calls[i].pc = "callFn"
          /\ calls' = [calls EXCEPT ![i].fnCalls = @ + 1, ![i].pc = "rejected",
                          ![i].thrown = Some(FnFailure)]
    /\ UNCHANGED << clientCache, constructed, extractorCalls, requests, inputVars, chatHistory, genVars,
                    consumerVars >>

\* storeConversation returns: the call returns fn's result
RememberStoreSucceeds ==
    /\ \E r \in 1..Len(requests), memories \in MemoryLists :
          /\ requests[r].kind = "extract" /\ requests[r].status = "pending"
          /\ calls[requests[r].call].op = "remember"
          /\ requests' = [requests EXCEPT ![r].status = "ok", ![r].memories = Some(memories)]
          /\ calls' = [calls EXCEPT ![requests[r].call].pc = "returned"]
    /\ UNCHANGED << clientCache, constructed, extractorCalls, inputVars, chatHistory, genVars, consumerVars >>

\* storeConversation fails: nothing catches it, the call rejects
RememberStoreFails ==
    /\ \E r \in 1..Len(requests), failure \in Failures :
          /\ requests[r].kind = "extract" /\ requests[r].status = "pending"
          /\ calls[requests[r].call].op = "remember"
          /\ requests' = [requests EXCEPT ![r].status = "failed", ![r].failure = Some(failure)]
          /\ calls' = [calls EXCEPT ![requests[r].call].pc = "rejected",
                          ![requests[r].call].thrown = Some(failure)]
    /\ UNCHANGED << clientCache, constructed, extractorCalls, inputVars, chatHistory, genVars, consumerVars >>

\* ------------------------------------------------- MemphoraLlamaIndex.put
PutUserMessages == { "hi", "" }
PutAssistantMessages == { "yo" }

ChatEntry(role, content) == [role |-> role, content |-> content]

\* a put call: its arguments, its position and what it threw
PutCall(userMessage, assistantMessage) ==
    [ op |-> "put", caller |-> "direct", userMessage |-> userMessage,
      assistantMessage |-> assistantMessage, pc |-> "awaitStore",
      handle |-> Some(ownMemphora), userId |-> ownMemphora.userId, thrown |-> None ]

\* Memphora.storeConversation: the request with the two-turn record
storeConversation(userMessage, assistantResponse, i) ==
    Request("extract", ownMemphora.userId, ownMemphora,
            << ConversationMessage("user", userMessage),
               ConversationMessage("assistant", assistantResponse) >>,
            "", 0, "", i)

\* (variant: the two pushes sit in a finally block)
chatHistoryAfterPutAlways(history, stored, c) ==
    history \o << ChatEntry("user", c.userMessage),
                  ChatEntry("assistant", c.assistantMessage) >>

\* the chat history once put's await is over: the two pushes run if
\* storeConversation returned and are skipped if it threw
chatHistoryAfterPut(history, stored, c) ==
    IF stored
    THEN history \o << ChatEntry("user", c.userMessage),
                       ChatEntry("assistant", c.assistantMessage) >>
    ELSE history

\* the application calls put: storeConversation sends its request
put ==
    /\ Len(calls) < MaxRepeat
    /\ \E userMessage \in PutUserMessages, assistantMessage \in PutAssistantMessages :
          /\ calls' = Append(calls, PutCall(userMessage, assistantMessage))
          /\ requests' = Append(requests,
                 storeConversation(userMessage, assistantMessage, Len(calls) + 1))
    /\ UNCHANGED << clientCache, constructed, extractorCalls, inputVars, chatHistory, genVars,
                    consumerVars >>

\* storeConversation returns: the pair is pushed and put returns
PutStoreSucceeds ==
    /\ \E r \in 1..Len(requests), memories \in MemoryLists :
          /\ requests[r].kind = "extract" /\ requests[r].status = "pending"
          /\ calls[requests[r].call].op = "put"
          /\ requests' = [requests EXCEPT ![r].status = "ok", ![r].memories = Some(memories)]
          /\ chatHistory' = chatHistoryAfterPut(chatHistory, TRUE, calls[requests[r].call])
          /\ calls' = [calls EXCEPT ![requests[r].call].pc = "returned"]
    /\ UNCHANGED << clientCache, constructed, extractorCalls, inputVars, genVars, consumerVars >>

\* storeConversation fails: nothing catches it, put rejects
PutStoreFails ==
    /\ \E r \in 1..Len(requests), failure \in Failures :
          /\ requests[r].kind = "extract" /\ requests[r].status = "pending"
          /\ calls[requests[r].call].op = "put"
          /\ requests' = [requests EXCEPT ![r].status = "failed", ![r].failure = Some(failure)]
          /\ chatHistory' = chatHistoryAfterPut(chatHistory, FALSE, calls[requests[r].call])
          /\ calls' = [calls EXCEPT ![requests[r].call].pc = "rejected",
                          ![requests[r].call].thrown = Some(failure)]
    /\ UNCHANGED << clientCache, constructed, extractorCalls, inputVars, genVars, consumerVars >>

\* reset(): this.chatHistory = []
reset ==
    /\ chatHistory' = << >>
    /\ UNCHANGED << mwVars, inputVars, genVars, consumerVars >>

\* ------------------------------------------------------------ specification
Init ==
    /\ config \in { MiddlewareConfig(g, a, TRUE) : g \in BOOLEAN, a \in BOOLEAN }
    /\ clientCache = << >>
    /\ constructed = 0
    /\ extractorCalls = 0
    /\ calls = << >>
    /\ requests = << >>
    /\ stream \in Producers
    /\ pulled = 0
    /\ chatMessages \in StreamMessageLists
    /\ wrapUserId \in {"alice", ""}
    /\ fullResponse = ""
    /\ memoryPromise = Pending
    /\ genPc = "suspendedStart"
    /\ completion = Completion("none", "")
    /\ streamCall = 0
    /\ consumerPc = "init"
    /\ consumed = << >>
    /\ consumerOutcome = Outcome("none", "", "init")
    /\ chatHistory = << >>

Next ==
    \/ ConsumerNext
    \/ PullChunk
    \/ YieldChunk
    \/ ProducerDone
    \/ ProducerThrows
    \/ ConsumerBreak
    \/ CloseProducer
    \/ CloseProducerThrows
    \/ GenFinally
    \/ FinallySettle
    \/ ConsumerObserveEnd
    \/ ConsumerAwaitHandle
    \/ AfterChatResolved
    \/ StoreSucceeds
    \/ StoreFails

Spec == Init /\ [][Next]_vars

\* The middleware on its own: the application calls beforeChat and afterChat,
\* possibly at the same time; no stream is wrapped.
MwInit ==
    /\ config \in { MiddlewareConfig(g, a, j) : g \in BOOLEAN, a \in BOOLEAN, j \in BOOLEAN }
    /\ clientCache = << >>
    /\ constructed = 0
    /\ extractorCalls = 0
    /\ calls = << >>
    /\ requests = << >>
    /\ stream = [chunks |-> << >>, end |-> "done"]
    /\ pulled = 0
    /\ chatMessages \in MessageLists
    /\ wrapUserId = ""
    /\ fullResponse = ""
    /\ memoryPromise = Pending
    /\ genPc = "suspendedStart"
    /\ completion = Completion("none", "")
    /\ streamCall = 0
    /\ consumerPc = "init"
    /\ consumed = << >>
    /\ consumerOutcome = Outcome("none", "", "init")
    /\ chatHistory = << >>

MwNext ==
    \/ DirectBeforeChat
    \/ DirectAfterChat
    \/ BeforeChatResolved
    \/ AfterChatResolved
    \/ SearchSucceeds
    \/ SearchFails
    \/ StoreSucceeds
    \/ StoreFails

MwSpec == MwInit /\ [][MwNext]_vars

\* The middleware's getContext and store on their own: the application calls
\* them, possibly at the same time; they take no message list.
CtxInit == MwInit /\ chatMessages = << >>

CtxNext ==
    \/ DirectGetContext
    \/ DirectStore
    \/ GetContextResolved
    \/ StoreResolved
    \/ ContextSearchSucceeds
    \/ ContextSearchFails
    \/ MemoryStored
    \/ MemoryStoreFails

CtxSpec == CtxInit /\ [][CtxNext]_vars

\* One middleware instance under calls of all its operations in flight at
\* once; the endpoint has not answered yet.
RaceInit ==
    /\ config \in { [MiddlewareConfig(g, TRUE, TRUE) EXCEPT !.defaultUserId = d] :
                       g \in BOOLEAN, d \in { "anonymous", "alice" } }
    /\ clientCache = << >>
    /\ constructed = 0
    /\ extractorCalls = 0
    /\ calls = << >>
    /\ requests = << >>
    /\ stream = [chunks |-> << >>, end |-> "done"]
    /\ pulled = 0
    /\ chatMessages = ListSystemUser
    /\ wrapUserId = ""
    /\ fullResponse = ""
    /\ memoryPromise = Pending
    /\ genPc = "suspendedStart"
    /\ completion = Completion("none", "")
    /\ streamCall = 0
    /\ consumerPc = "init"
    /\ consumed = << >>
    /\ consumerOutcome = Outcome("none", "", "init")
    /\ chatHistory = << >>

RaceNext ==
    \/ RaceBeforeChat
    \/ RaceAfterChat
    \/ RaceGetContext
    \/ RaceStore
    \/ RaceGetClient
    \/ BeforeChatResolved
    \/ AfterChatResolved
    \/ GetContextResolved
    \/ StoreResolved

RaceSpec == RaceInit /\ [][RaceNext]_vars

\* afterChat calls in flight at once on one middleware instance, the
\* endpoint answering their requests in any order.
StoreRaceNext ==
    \/ ConcurrentAfterChat
    \/ AfterChatResolved
    \/ StoreSucceeds
    \/ StoreFails

StoreRaceSpec == RaceInit /\ [][StoreRaceNext]_vars

\* The request helper on its own: requests made through a handle's
\* rawClient, each answered with some HTTP response.
HttpInit == MwInit /\ config = MiddlewareConfig(FALSE, TRUE, TRUE) /\ chatMessages = << >>

HttpNext ==
    \/ RawRequest
    \/ FetchResponds

HttpSpec == HttpInit /\ [][HttpNext]_vars

\* The four operations up to the point where they have their user id, with
\* requests the extractor maps to a user or throws on.
ExtractorInit == MwInit /\ config.autoStore /\ chatMessages = ListSystemUser

ExtractorNext ==
    \/ DirectBeforeChat
    \/ DirectAfterChat
    \/ DirectGetContext
    \/ DirectStore
    \/ BeforeChatResolved
    \/ AfterChatResolved
    \/ GetContextResolved
    \/ StoreResolved

ExtractorSpec == ExtractorInit /\ [][ExtractorNext]_vars

\* The two retrieving operations, beforeChat and getContext, with every answer
\* the endpoint can give to their search.
RetrievalInit == MwInit /\ config.autoStore /\ ~config.hasGetUserId

RetrievalNext ==
    \/ DirectBeforeChat
    \/ BeforeChatResolved
    \/ SearchSucceeds
    \/ SearchFails
    \/ DirectGetContext
    \/ GetContextResolved
    \/ ContextSearchSucceeds
    \/ ContextSearchFails

RetrievalSpec == RetrievalInit /\ [][RetrievalNext]_vars

\* A wrapped stream that is iterated, and iterated again.
ReiterateInit ==
    /\ Init
    /\ config = MiddlewareConfig(FALSE, TRUE, TRUE)
    /\ chatMessages = ListSystemUser
    /\ wrapUserId = "alice"

ReiterateNext ==
    \/ ConsumerNext
    \/ PullChunk
    \/ YieldChunk
    \/ ProducerDone
    \/ ProducerThrows
    \/ ConsumerBreak
    \/ CloseProducer
    \/ CloseProducerThrows
    \/ GenFinally
    \/ FinallySettle
    \/ ConsumerObserveEnd
    \/ StoreSucceeds
    \/ StoreFails
    \/ Reiterate
    \/ ReturnBeforeStart

ReiterateSpec == ReiterateInit /\ [][ReiterateNext]_vars

\* Functions wrapped by remember on the application's own handle.
RememberInit ==
    MwInit /\ config = MiddlewareConfig(FALSE, TRUE, TRUE) /\ chatMessages = << >>

RememberNext ==
    \/ remember
    \/ RememberContextSucceeds
    \/ RememberContextFails
    \/ RememberFnReturns
    \/ RememberFnThrows
    \/ RememberStoreSucceeds
    \/ RememberStoreFails

RememberSpec == RememberInit /\ [][RememberNext]_vars

\* A MemphoraLlamaIndex memory whose put calls may overlap, and its reset.
LlamaIndexInit ==
    MwInit /\ config = MiddlewareConfig(FALSE, TRUE, TRUE) /\ chatMessages = << >>

LlamaIndexNext ==
    \/ put
    \/ PutStoreSucceeds
    \/ PutStoreFails
    \/ reset

LlamaIndexSpec == LlamaIndexInit /\ [][LlamaIndexNext]_vars

\* A chat turn: beforeChat on the application's message list, then afterChat
\* on the enhanced list it returned.
TurnInit == MwInit /\ config.autoStore /\ ~config.hasGetUserId

TurnNext ==
    \/ TurnBeforeChat
    \/ BeforeChatResolved
    \/ SearchSucceeds
    \/ SearchFails
    \/ TurnAfterChat
    \/ AfterChatResolved

TurnSpec == TurnInit /\ [][TurnNext]_vars

\* A chat turn on a middleware that createMemphoraMiddleware returned for a
\* configuration with or without an apiKey: the destructuring takes the
\* field as it is.
KeyInit ==
    /\ config \in { [MiddlewareConfig(FALSE, TRUE, j) EXCEPT !.apiKey = k] :
                       j \in BOOLEAN, k \in { "key", NoKey } }
    /\ clientCache = << >>
    /\ constructed = 0
    /\ extractorCalls = 0
    /\ calls = << >>
    /\ requests = << >>
    /\ stream = [chunks |-> << >>, end |-> "done"]
    /\ pulled = 0
    /\ chatMessages \in StreamMessageLists
    /\ wrapUserId = ""
    /\ fullResponse = ""
    /\ memoryPromise = Pending
    /\ genPc = "suspendedStart"
    /\ completion = Completion("none", "")
    /\ streamCall = 0
    /\ consumerPc = "init"
    /\ consumed = << >>
    /\ consumerOutcome = Outcome("none", "", "init")
    /\ chatHistory = << >>

KeySpec == KeyInit /\ [][TurnNext]_vars

\* beforeChat called again and again on one message list, the endpoint
\* answering each search.
RepeatInit ==
    /\ config \in { MiddlewareConfig(FALSE, TRUE, j) : j \in BOOLEAN }
    /\ clientCache = << >>
    /\ constructed = 0
    /\ extractorCalls = 0
    /\ calls = << >>
    /\ requests = << >>
    /\ stream = [chunks |-> << >>, end |-> "done"]
    /\ pulled = 0
    /\ chatMessages \in MessageLists
    /\ wrapUserId = ""
    /\ fullResponse = ""
    /\ memoryPromise = Pending
    /\ genPc = "suspendedStart"
    /\ completion = Completion("none", "")
    /\ streamCall = 0
    /\ consumerPc = "init"
    /\ consumed = << >>
    /\ consumerOutcome = Outcome("none", "", "init")
    /\ chatHistory = << >>

RepeatNext ==
    \/ RepeatBeforeChat
    \/ BeforeChatResolved
    \/ SearchSucceeds
    \/ SearchFails

RepeatSpec == RepeatInit /\ [][RepeatNext]_vars

\* A middleware configured with autoStore: false, under a wrapped stream and
\* direct afterChat calls. No afterChat call suspends and no request is ever
\* pending, so the continuation and endpoint actions have nothing to act on.
NoStoreInit == Init /\ ~config.autoStore

NoStoreNext ==
    \/ ConsumerNext
    \/ PullChunk
    \/ YieldChunk
    \/ ProducerDone
    \/ ProducerThrows
    \/ ConsumerBreak
    \/ CloseProducer
    \/ CloseProducerThrows
    \/ GenFinally
    \/ FinallySettle
    \/ ConsumerObserveEnd
    \/ DirectAfterChat

NoStoreSpec == NoStoreInit /\ [][NoStoreNext]_vars

TypeOK ==
    /\ genPc \in {"suspendedStart", "awaitNext", "yielding", "suspendedYield", "closing",
                   "finally", "awaitAfterChat", "completed"}
    /\ consumerPc \in {"init", "awaitHandle", "waitNext", "body", "waitReturn", "ended"}
    /\ pulled \in 0..Len(stream.chunks)
    /\ memoryPromise.state \in {"pending", "fulfilled", "rejected"}

\* what the event loop, the producer and the endpoint guarantee: a step that
\* can be taken is taken; a consumer that has started its loop keeps asking
\* for the next value unless it breaks, but nothing makes it start
Fairness ==
    /\ WF_vars(consumerPc = "body" /\ ConsumerNext)
    /\ WF_vars(PullChunk)
    /\ WF_vars(YieldChunk)
    /\ WF_vars(ProducerDone)
    /\ WF_vars(ProducerThrows)
    /\ WF_vars(CloseProducer \/ CloseProducerThrows)
    /\ WF_vars(GenFinally)
    /\ WF_vars(FinallySettle)
    /\ WF_vars(ConsumerObserveEnd)
    /\ WF_vars(AfterChatResolved)
    /\ WF_vars(StoreSucceeds \/ StoreFails)

FairSpec == Spec /\ Fairness

\* ------------------------------------------------------------------- claims
\* the afterChat calls made by the wrapped stream
StreamCalls == { i \in 1..Len(calls) : calls[i].caller = "stream" }
\* the try block of the pass is over: producer exhausted, producer threw,
\* or the consumer's return() arrived
PassEnded == completion.type \in {"normal", "throw", "return"}

\* C1: in a single pass over the wrapped stream, afterChat is invoked at most
\* once, never before the pass has ended, and exactly once by the time the
\* consumer's loop is over, whichever way the pass ended.
C1_AfterChatExactlyOnce ==
    /\ Cardinality(StreamCalls) <= 1
    /\ (StreamCalls # {} => PassEnded /\ genPc \in {"awaitAfterChat", "completed"})
    /\ (genPc \in {"awaitAfterChat", "completed"} => Cardinality(StreamCalls) = 1)
    /\ (consumerPc = "ended" => Cardinality(StreamCalls) = 1)

C1_Witness ==
    /\ consumerPc = "ended" /\ consumerOutcome.type = "break"
    /\ Len(consumed) < Len(stream.chunks)
    /\ Cardinality(StreamCalls) = 1

\* C2: the response text handed to afterChat is the in-order concatenation
\* of the text deltas of exactly the chunks pulled from the producer before
\* the pass ended: the whole text after a full pass, the partial text after
\* an abort.
C2_ResponseIsConcatenation ==
    \A i \in StreamCalls :
        /\ calls[i].text = ConcatContent(SubSeq(stream.chunks, 1, pulled))
        /\ (completion.type \in {"normal"} => calls[i].text = ConcatContent(stream.chunks))

C2_Witness ==
    /\ streamCall # 0 /\ calls[streamCall].text = "Hello"
    /\ Len(stream.chunks) = 2 /\ completion.type = "normal"

\* C3: what the consumer has received is always the producer's sequence up
\* to the last chunk pulled, same values in the same order, and the whole
\* sequence once the consumer saw the stream end.
C3_ForwardingTransparent ==
    /\ consumed = SubSeq(stream.chunks, 1, Len(consumed))
    /\ Len(consumed) = (IF genPc = "yielding" THEN pulled - 1 ELSE pulled)
    /\ (consumerPc = "ended" /\ consumerOutcome.via = "waitNext" => consumed = stream.chunks)

C3_Witness ==
    /\ consumerPc = "ended" /\ consumerOutcome.type = "done"
    /\ Len(consumed) = MaxChunks /\ consumed[1] # consumed[2]

\* C4: when the producer throws after its chunks, the consumer's loop ends
\* with that very error, and afterChat was invoked once with the text
\* accumulated before the error.
C4_ProducerErrorForwarded ==
    (consumerPc = "ended" /\ consumerOutcome.via = "waitNext" /\ stream.end = "throw")
        => /\ consumerOutcome.type = "throw" /\ consumerOutcome.error = ProducerError
           /\ Cardinality(StreamCalls) = 1
           /\ calls[streamCall].text = ConcatContent(stream.chunks)

C4_Witness ==
    /\ consumerPc = "ended" /\ consumerOutcome.error = ProducerError
    /\ Len(stream.chunks) > 0 /\ calls[streamCall].text # ""

\* C5: the completion handle is never rejected, and once settled it holds
\* exactly the result of the stream's afterChat call, which has returned by
\* then; a failed store shows as success false in it.
C5_HandleCarriesResult ==
    /\ memoryPromise.state # "rejected"
    /\ (memoryPromise.state = "fulfilled" =>
           /\ streamCall \in StreamCalls
           /\ calls[streamCall].pc = "returned"
           /\ memoryPromise.value = calls[streamCall].result)
    /\ (memoryPromise.state = "pending" => genPc # "completed")

C5_Witness ==
    /\ memoryPromise.state = "fulfilled"
    /\ ~memoryPromise.value.success /\ memoryPromise.value.error # None
    /\ requests[1].status = "failed"

\* C6: once the consumer has started to read the wrapped stream, and keeps
\* reading, the producer ends and the store request comes back, the
\* completion handle is eventually resolved.
C6_HandleEventuallyResolves ==
    (consumerPc = "waitNext") ~> (memoryPromise.state = "fulfilled")

C6_Witness ==
    /\ consumerPc = "ended" /\ consumerOutcome.type = "done"
    /\ memoryPromise.state = "fulfilled"
    /\ Len(requests) = 1

\* C7: the completion handle is eventually resolved whether or not the
\* wrapped stream is read (the README awaits it right after wrapping).
C7_HandleResolvesWithoutIteration ==
    <>(memoryPromise.state = "fulfilled")

\* C8: whenever the search request of a beforeChat call failed, the call has
\* returned (it did not reject) with an empty context, no memories, and
\* enhancedMessages equal to its input list, element for element.
C8_SearchFailureDegrades ==
    \A r \in 1..Len(requests) :
        (requests[r].kind = "search" /\ requests[r].status = "failed") =>
            LET c == calls[requests[r].call]
            IN  /\ c.pc = "returned"
                /\ c.before.context = ""
                /\ c.before.memories = << >>
                /\ Len(c.before.enhancedMessages) = Len(c.messages)
                /\ \A k \in 1..Len(c.messages) : c.before.enhancedMessages[k] = c.messages[k]

C8_Witness ==
    \E r \in 1..Len(requests) :
        /\ requests[r].kind = "search" /\ requests[r].status = "failed"
        /\ config.injectAsSystemMessage
        /\ calls[requests[r].call].pc = "returned"
        /\ calls[requests[r].call].messages = ListSystemUser
        /\ calls[requests[r].call].before.enhancedMessages = ListSystemUser

\* C9: whenever the extract request of an afterChat call failed, the call
\* has returned (it did not reject) with success false and an error message,
\* the failure's own message when it is an Error; whenever the request
\* succeeded, the call has returned success true with the extracted memories.
C9_StoreOutcomeReported ==
    \A r \in 1..Len(requests) :
        requests[r].kind = "extract" =>
            LET c == calls[requests[r].call]
            IN  /\ c.pc \in {"awaitStore", "returned"}
                /\ (requests[r].status = "pending" <=> c.pc = "awaitStore")
                /\ (requests[r].status = "failed" =>
                       /\ ~c.result.success
                       /\ c.result.error # None /\ c.result.error[1] # ""
                       /\ c.result.memories = None
                       /\ (requests[r].failure[1].isError =>
                              c.result.error[1] = requests[r].failure[1].message))
                /\ (requests[r].status = "ok" =>
                       /\ c.result.success
                       /\ c.result.memories = requests[r].memories
                       /\ c.result.error = None)

C9_Witness ==
    \E r \in 1..Len(requests) :
        /\ requests[r].kind = "extract" /\ requests[r].status = "failed"
        /\ calls[requests[r].call].caller = "direct"
        /\ calls[requests[r].call].pc = "returned"
        /\ calls[requests[r].call].result.error = Some("HTTP 500: Internal Server Error")

\* C10: with auto-store disabled, no request ever reaches the endpoint, and
\* every afterChat call, the application's or a wrapped stream's, has
\* returned success true and nothing else.
C10_AutoStoreOffSendsNothing ==
    /\ Len(requests) = 0
    /\ \A i \in 1..Len(calls) :
          calls[i].op = "afterChat" =>
              calls[i].pc = "returned" /\ calls[i].result = AfterChatResult(TRUE, None, None)

C10_Witness ==
    /\ ~config.autoStore
    /\ DirectCalls # {} /\ StreamCalls # {}
    /\ genPc = "completed" /\ memoryPromise.state = "fulfilled"
    /\ Len(requests) = 0

\* C11: a failure of the request inside getContext or store is never
\* re-thrown by them: a getContext call whose search failed has returned
\* { context: '', memories: [] } and a store call whose request failed has
\* returned null; neither is rejected.
C11_ContextAndStoreNeverRethrow ==
    \A r \in 1..Len(requests) :
        LET c == calls[requests[r].call]
        IN  (c.op \in {"getContext", "store"} /\ requests[r].status = "failed")
            => /\ c.pc = "returned"
               /\ c.error = ""
               /\ c.op = "getContext" => c.before.context = "" /\ c.before.memories = << >>
               /\ c.op = "store" => c.memory = None

C11_Witness ==
    \E r \in 1..Len(requests) :
        /\ calls[requests[r].call].op = "getContext"
        /\ requests[r].kind = "search" /\ requests[r].status = "failed"
        /\ requests[r].failure # None
        /\ calls[requests[r].call].pc = "returned"

\* C12: in one middleware instance a handle is constructed at most once per
\* user id, whatever the interleaving of beforeChat, afterChat, getContext,
\* store and getClient calls: there are as many constructions as registry
\* entries, and every call and every request for a user id carries the
\* registry's handle for it.
C12_HandleConstructedOnce ==
    /\ constructed = Cardinality(DOMAIN clientCache)
    /\ \A i \in 1..Len(calls) :
          calls[i].handle # None
          => /\ calls[i].userId \in DOMAIN clientCache
             /\ calls[i].handle[1] = clientCache[calls[i].userId]
    /\ \A r \in 1..Len(requests) :
          requests[r].handle = calls[requests[r].call].handle[1]

\* call 1 was suspended in resolveUserId while call 2, another operation for
\* the same user, went through getClient first
C12_Witness ==
    /\ Len(requests) = 2
    /\ requests[1].call = 2 /\ requests[2].call = 1
    /\ calls[1].op # calls[2].op
    /\ calls[1].userId = calls[2].userId
    /\ requests[1].handle = requests[2].handle

\* C13: the registry only grows: a step never removes or replaces an entry,
\* and every entry is the handle built for its user id from the
\* configuration the middleware was constructed with.
C13_RegistryOnlyGrows ==
    [][ /\ \A u \in DOMAIN clientCache :
             u \in DOMAIN clientCache' /\ clientCache'[u] = clientCache[u]
        /\ \A u \in DOMAIN clientCache' :
             /\ clientCache'[u].userId = u
             /\ clientCache'[u].apiKey = config.apiKey
             /\ clientCache'[u].apiUrl = config.apiUrl
             /\ clientCache'[u].maxTokens = config.maxTokens ]_vars

\* two users have handles and a later getClient call got the first one back
C13_Witness ==
    /\ Cardinality(DOMAIN clientCache) = 2
    /\ \E i \in 1..Len(calls) :
          /\ calls[i].op = "getClient"
          /\ calls[i].handle # None
          /\ calls[i].handle[1].serial = 1
          /\ \E j \in 1..(i - 1) :
                calls[j].handle # None /\ calls[j].handle[1].serial = 2

\* the calls that have settled on a user id
ResolvedCalls ==
    { i \in 1..Len(calls) :
        /\ calls[i].op \in {"beforeChat", "afterChat", "getContext", "store"}
        /\ calls[i].pc \in {"awaitSearch", "awaitStore", "returned"} }

\* C14 as stated: an explicit userId override always takes precedence and
\* the extractor is then not invoked; otherwise the extractor's result is
\* used unchanged when an extractor and a request are there; otherwise the
\* configured default identity.
C14_OverrideAlwaysPrecedes ==
    /\ \A i \in ResolvedCalls :
          calls[i].userId =
              IF calls[i].optUserId # None THEN calls[i].optUserId[1]
              ELSE IF config.hasGetUserId /\ calls[i].req.present THEN calls[i].req.uid
              ELSE config.defaultUserId
    /\ extractorCalls =
          Cardinality({ i \in 1..Len(calls) :
                          /\ calls[i].op # "getClient"
                          /\ calls[i].optUserId = None
                          /\ config.hasGetUserId /\ calls[i].req.present })

\* C14 amended: a non-empty explicit userId override takes precedence and the
\* extractor is then not invoked; an empty override counts as absent. With
\* no non-empty override, the extractor's result is used unchanged (even if
\* empty) when an extractor and a request are there; otherwise the
\* configured default identity.
C14_NonEmptyOverridePrecedes ==
    /\ \A i \in ResolvedCalls :
          calls[i].userId =
              IF calls[i].optUserId # None /\ calls[i].optUserId[1] # ""
              THEN calls[i].optUserId[1]
              ELSE IF config.hasGetUserId /\ calls[i].req.present THEN calls[i].req.uid
              ELSE config.defaultUserId
    /\ extractorCalls =
          Cardinality({ i \in 1..Len(calls) :
                          /\ calls[i].op # "getClient"
                          /\ ~(calls[i].optUserId # None /\ calls[i].optUserId[1] # "")
                          /\ config.hasGetUserId /\ calls[i].req.present })

\* an empty override was passed with a request the extractor maps to a user,
\* and the call went on under the extractor's user id
C14_Witness ==
    \E i \in ResolvedCalls :
        /\ calls[i].optUserId = Some("")
        /\ config.hasGetUserId /\ calls[i].req.present
        /\ calls[i].req.uid = "alice"
        /\ calls[i].userId = "alice"
        /\ extractorCalls > 0

\* ------------------------------------------------- beforeChat, call by call
\* the search requests call i has sent
SearchesOf(i) == { r \in 1..Len(requests) : requests[r].call = i /\ requests[r].kind = "search" }

\* the beforeChat calls that are past getClient
StartedBeforeChats ==
    { i \in 1..Len(calls) : calls[i].op = "beforeChat" /\ calls[i].pc \in {"awaitSearch", "returned"} }

\* the beforeChat calls that have returned
ReturnedBeforeChats ==
    { i \in 1..Len(calls) : calls[i].op = "beforeChat" /\ calls[i].pc = "returned" }

\* the beforeChat calls that have returned after a search that gave facts
FactCalls ==
    { i \in ReturnedBeforeChats :
        \E r \in SearchesOf(i) :
            /\ requests[r].status = "ok"
            /\ requests[r].searchResult[1].facts # None
            /\ requests[r].searchResult[1].facts[1] # << >> }

\* the facts call i of FactCalls was given
FactsOf(i) == requests[CHOOSE r \in SearchesOf(i) : TRUE].searchResult[1].facts[1]

HasUser(messages) == \E k \in 1..Len(messages) : messages[k].role = "user"

\* content is the content of the user-role message with the highest index
IsLastUserContent(messages, content) ==
    \E k \in 1..Len(messages) :
        /\ messages[k].role = "user" /\ messages[k].content = content
        /\ \A j \in (k + 1)..Len(messages) : messages[j].role # "user"

\* call i searched with query, once, or with nothing at all when query is ''
SearchedWith(i, query) ==
    /\ \A r \in SearchesOf(i) : requests[r].query = query
    /\ Cardinality(SearchesOf(i)) = (IF query = "" THEN 0 ELSE 1)

\* C15 as stated: with a user-role message and no query override the search
\* query is the content of the highest-index user message; an explicit
\* query override, whatever it is, replaces it.
C15_AnyOverrideReplacesQuery ==
    \A i \in StartedBeforeChats :
        /\ calls[i].optQuery # None => SearchedWith(i, calls[i].optQuery[1])
        /\ (calls[i].optQuery = None /\ HasUser(calls[i].messages))
           => \E q \in { calls[i].messages[k].content : k \in 1..Len(calls[i].messages) } :
                 IsLastUserContent(calls[i].messages, q) /\ SearchedWith(i, q)

\* C15 amended: with a user-role message and no query override, or an empty
\* one, the search query is the content of the highest-index user message; a
\* non-empty query override replaces it.
C15_NonEmptyOverrideReplacesQuery ==
    \A i \in StartedBeforeChats :
        LET override == calls[i].optQuery # None /\ calls[i].optQuery[1] # ""
        IN  /\ override => SearchedWith(i, calls[i].optQuery[1])
            /\ (~override /\ HasUser(calls[i].messages))
               => \E q \in { calls[i].messages[k].content : k \in 1..Len(calls[i].messages) } :
                     IsLastUserContent(calls[i].messages, q) /\ SearchedWith(i, q)

\* an empty override on a list with two user messages: the search went out
\* with the second one's content
C15_Witness ==
    \E i \in StartedBeforeChats :
        /\ calls[i].optQuery = Some("")
        /\ calls[i].messages = ListTwoUsersTwoSystems
        /\ \E r \in SearchesOf(i) : requests[r].query = "second"

\* C16: with no user-role message and no query override beforeChat sends no
\* search request and returns the input as enhancedMessages, with an empty
\* context.
C16_NoUserMessageNoSearch ==
    \A i \in StartedBeforeChats :
        (~HasUser(calls[i].messages) /\ calls[i].optQuery = None)
        => /\ SearchesOf(i) = {}
           /\ calls[i].pc = "returned"
           /\ calls[i].before.enhancedMessages = calls[i].messages
           /\ calls[i].before.context = ""

C16_Witness ==
    \E i \in ReturnedBeforeChats :
        /\ calls[i].messages = ListNoUser
        /\ calls[i].optQuery = None
        /\ calls[i].before.enhancedMessages = ListNoUser
        /\ config.injectAsSystemMessage

RECURSIVE BulletLines(_)
\* one line '- <fact.text>' per fact, in order, joined by newlines
BulletLines(facts) ==
    IF Len(facts) = 1 THEN "- " \o facts[1].text
    ELSE "- " \o facts[1].text \o "\n" \o BulletLines(Tail(facts))

\* the ContextBlock: the banner, a newline, the bullet lines
ContextBlock(facts) == config.systemMessagePrefix \o "\n" \o BulletLines(facts)

SystemIndices(messages) == { k \in 1..Len(messages) : messages[k].role = "system" }

\* the new system message in front, the input behind it in its order
Prepended(in, out, block) ==
    /\ Len(out) = Len(in) + 1
    /\ out[1].role = "system" /\ out[1].content = block
    /\ \A j \in 1..Len(in) : out[j + 1] = in[j]

\* C17 as stated: with facts and injection enabled, for a system-role message
\* at index k of the input, enhancedMessages has the input's length and the
\* block is appended after a blank line to the content at index k; with no
\* system-role message, a new system message comes first, then the input.
C17_BlockAtAnySystemMessage ==
    \A i \in FactCalls :
        config.injectAsSystemMessage
        => LET in == calls[i].messages
               out == calls[i].before.enhancedMessages
               block == ContextBlock(FactsOf(i))
           IN  /\ \A k \in SystemIndices(in) :
                     /\ Len(out) = Len(in)
                     /\ out[k].content = in[k].content \o "\n\n" \o block
               /\ SystemIndices(in) = {} => Prepended(in, out, block)

\* C17 amended: with facts and injection enabled, if the input has a
\* system-role message and k is the lowest index of one, enhancedMessages has
\* the input's length, the block is appended after a blank line to the
\* content at index k and every other message, later system messages
\* included, is the input's; with no system-role message, a new system
\* message comes first, then the input in its order.
C17_BlockAtFirstSystemMessage ==
    \A i \in FactCalls :
        config.injectAsSystemMessage
        => LET in == calls[i].messages
               out == calls[i].before.enhancedMessages
               block == ContextBlock(FactsOf(i))
           IN  /\ \A k \in SystemIndices(in) :
                     (\A j \in SystemIndices(in) : k <= j)
                     => /\ Len(out) = Len(in)
                        /\ out[k] = [in[k] EXCEPT !.content = @ \o "\n\n" \o block]
                        /\ \A j \in 1..Len(in) : j # k => out[j] = in[j]
               /\ SystemIndices(in) = {} => Prepended(in, out, block)

\* facts injected into a list with system messages at 2 and 4: the one at 2
\* got the block, the one at 4 is as it was
C17_Witness ==
    \E i \in FactCalls :
        /\ config.injectAsSystemMessage
        /\ calls[i].messages = ListTwoUsersTwoSystems
        /\ calls[i].before.enhancedMessages[2].content # "s1"
        /\ calls[i].before.enhancedMessages[4].content = "s2"

\* the text call i put into the messages, if it put any: what follows the
\* blank line in the system message, or the new first message's content
InjectedIs(i, text) ==
    LET in == calls[i].messages
        out == calls[i].before.enhancedMessages
    IN  IF SystemIndices(in) # {}
        THEN \E k \in SystemIndices(in) : out[k].content = in[k].content \o "\n\n" \o text
        ELSE Len(out) = Len(in) + 1 /\ out[1].content = text

\* C18 as stated: with facts, the context in beforeChat's result is the
\* ContextBlock (banner, newline, bullet lines in the order returned), and
\* that same block is what is injected.
C18_ReturnedContextIsBlock ==
    \A i \in FactCalls :
        /\ calls[i].before.context = ContextBlock(FactsOf(i))
        /\ config.injectAsSystemMessage => InjectedIs(i, calls[i].before.context)

\* C18 amended: with facts, the context in beforeChat's result is the bullet
\* lines alone, '- <fact.text>' per fact in the order returned, joined by
\* newlines, without the banner; what is injected is the ContextBlock, the
\* banner and a newline in front of that context.
C18_ReturnedContextIsBulletLines ==
    \A i \in FactCalls :
        /\ calls[i].before.context = BulletLines(FactsOf(i))
        /\ config.injectAsSystemMessage
           => /\ InjectedIs(i, ContextBlock(FactsOf(i)))
              /\ InjectedIs(i, config.systemMessagePrefix \o "\n" \o calls[i].before.context)

C18_Witness ==
    \E i \in FactCalls :
        /\ Len(FactsOf(i)) = 2
        /\ calls[i].before.context = "- likes blue\n- has a cat"
        /\ config.injectAsSystemMessage
        /\ calls[i].messages = ListUserToolAssistant
        /\ calls[i].before.enhancedMessages[1].content =
               "Relevant context from previous conversations:\n- likes blue\n- has a cat"

SameAnswer(i, j) ==
    \/ SearchesOf(i) = {} /\ SearchesOf(j) = {}
    \/ \E r \in SearchesOf(i), q \in SearchesOf(j) :
          /\ requests[r].status = "ok" /\ requests[q].status = "ok"
          /\ requests[r].searchResult = requests[q].searchResult

ExtractsOf(i) == { r \in 1..Len(requests) : requests[r].call = i /\ requests[r].kind = "extract" }

RECURSIVE Turns(_)
\* the user and assistant messages of a list, in order, as role and content
Turns(messages) ==
    IF messages = << >> THEN << >>
    ELSE (IF Head(messages).role \in {"user", "assistant"}
          THEN << [role |-> Head(messages).role, content |-> Head(messages).content] >>
          ELSE << >>) \o Turns(Tail(messages))

\* C21: the conversation record afterChat sends is the user and assistant
\* messages of its input, in order, as role and content only, then one
\* assistant turn with the response text; no other role appears in it.
C21_RecordIsTurnsPlusResponse ==
    \A r \in 1..Len(requests) :
        requests[r].kind = "extract"
        => LET c == calls[requests[r].call]
               record == requests[r].conversation
           IN  /\ record = Turns(c.messages) \o << [role |-> "assistant", content |-> c.text] >>
               /\ \A k \in 1..Len(record) :
                     /\ DOMAIN record[k] = {"role", "content"}
                     /\ record[k].role \in {"user", "assistant"}

\* a list with a tool message between a user and an assistant message was
\* sent as three turns
C21_Witness ==
    \E r \in 1..Len(requests) :
        /\ requests[r].kind = "extract"
        /\ calls[requests[r].call].messages = ListUserToolAssistant
        /\ Len(requests[r].conversation) = 3
        /\ requests[r].conversation[3].content = "ok"

\* C22: a context block is never persisted: the record afterChat sends when
\* given the enhancedMessages of a beforeChat call is the record of the
\* original messages.
C22_ContextNeverPersisted ==
    \A r \in 1..Len(requests) :
        requests[r].kind = "extract"
        => requests[r].conversation =
              Turns(chatMessages) \o << [role |-> "assistant", content |-> "ok"] >>

\* afterChat was given a list with the block injected and sent its record
C22_Witness ==
    \E r \in 1..Len(requests) :
        /\ requests[r].kind = "extract"
        /\ calls[requests[r].call].messages # chatMessages
        /\ \E i \in FactCalls :
              calls[requests[r].call].messages = calls[i].before.enhancedMessages

\* C23: in a wrapped stream a chunk is handed to the consumer only when its
\* text is in the accumulator, chunks are handed over in producer order, and
\* afterChat is invoked, and a request sent, only after the last chunk was
\* handed over: no request exists while chunks are still being handed over.
C23_AccumulateThenForwardThenStore ==
    [][ /\ consumed' # consumed
           => /\ consumed' = Append(consumed, stream.chunks[Len(consumed) + 1])
              /\ fullResponse = ConcatContent(SubSeq(stream.chunks, 1, Len(consumed')))
              /\ streamCall = 0 /\ calls = << >> /\ requests = << >>
        /\ (streamCall' # streamCall \/ calls' # calls \/ requests' # requests)
           => /\ consumed' = consumed
              /\ Len(consumed) = pulled
              /\ genPc \in {"finally", "awaitAfterChat"}
      ]_vars

\* two chunks with text were handed over and the store request is out
C23_Witness ==
    /\ Len(consumed) = 2
    /\ chunkContent(consumed[1]) # "" /\ chunkContent(consumed[2]) # ""
    /\ streamCall # 0
    /\ Len(requests) = 1
    /\ requests[1].conversation[Len(requests[1].conversation)].content = fullResponse

\* the afterChat calls that are past getClient
StartedAfterChats ==
    { i \in 1..Len(calls) : calls[i].op = "afterChat" /\ calls[i].pc \in {"awaitStore", "returned"} }

\* C24: with auto-store enabled every afterChat call sends exactly one store
\* request of its own, whatever other calls for the same user are in flight:
\* N calls make N requests, each sent as soon as its call has its handle,
\* and each call returns on the answer to its own request.
C24_EveryAfterChatStores ==
    /\ \A i \in StartedAfterChats :
          /\ Cardinality(ExtractsOf(i)) = 1
          /\ \A r \in ExtractsOf(i) :
                /\ requests[r].userId = calls[i].userId
                /\ (calls[i].pc = "returned") = (requests[r].status # "pending")
    /\ Cardinality({ r \in 1..Len(requests) : requests[r].kind = "extract" })
          = Cardinality(StartedAfterChats)

\* two calls for one user: the later request was answered while the earlier
\* one is still outstanding
C24_Witness ==
    \E i, j \in StartedAfterChats :
        /\ i # j /\ calls[i].userId = calls[j].userId
        /\ \E r \in ExtractsOf(i), q \in ExtractsOf(j) :
              /\ r < q
              /\ requests[r].status = "pending"
              /\ requests[q].status = "ok"
              /\ calls[j].pc = "returned"

\* C25 as stated: a middleware or a client handle without an API key or an
\* identity does not come into being, so no handle in the registry lacks
\* one and no request is ever sent through such a handle.
C25_MissingKeyFailsAtConstruction ==
    /\ \A u \in DOMAIN clientCache :
          clientCache[u].apiKey # NoKey /\ clientCache[u].userId # ""
    /\ \A r \in 1..Len(requests) :
          requests[r].handle.apiKey # NoKey /\ requests[r].handle.userId # ""

\* --------------------------------------------------- the accumulator, chunk by chunk
\* the three shapes of a chunk in the order they are looked at
Shapes(chunk) == << chunk.choices, chunk.delta, chunk.content >>

\* the content of the first shape the chunk has, '' if it has none
FirstMatchingShape(chunk) ==
    LET there == { k \in 1..3 : Shapes(chunk)[k] # None }
    IN  IF there = {} THEN ""
        ELSE Shapes(chunk)[CHOOSE k \in there : \A j \in there : k <= j][1]

\* the content of the first shape the chunk has with a non-empty content,
\* '' if it has none
FirstNonEmptyShape(chunk) ==
    LET filled == { k \in 1..3 : Shapes(chunk)[k] # None /\ Shapes(chunk)[k][1] # "" }
    IN  IF filled = {} THEN ""
        ELSE Shapes(chunk)[CHOOSE k \in filled : \A j \in filled : k <= j][1]

RECURSIVE JoinDeltas(_)
JoinDeltas(deltas) ==
    IF deltas = << >> THEN "" ELSE Head(deltas) \o JoinDeltas(Tail(deltas))

\* C26 as stated: each chunk adds the content of the first shape it matches,
\* in the order choices[0].delta.content, delta.content, content, and ''
\* if it matches none; every chunk is forwarded.
C26_FirstMatchingShapeCounts ==
    /\ fullResponse = JoinDeltas([ k \in 1..pulled |-> FirstMatchingShape(stream.chunks[k]) ])
    /\ consumed = SubSeq(stream.chunks, 1, Len(consumed))

\* C26 amended: each chunk adds the content of the first shape, in the order
\* choices[0].delta.content, delta.content, content, whose content is
\* non-empty (a shape that is there with an empty content is passed over),
\* and '' if there is none; every chunk is forwarded.
C26_FirstNonEmptyShapeCounts ==
    /\ fullResponse = JoinDeltas([ k \in 1..pulled |-> FirstNonEmptyShape(stream.chunks[k]) ])
    /\ consumed = SubSeq(stream.chunks, 1, Len(consumed))

\* a chunk with an empty choices[0].delta.content and a delta.content, then a
\* chunk of no known shape: both forwarded, the accumulator holds the
\* delta.content
C26_Witness ==
    /\ Len(consumed) = 2
    /\ consumed[1] = Chunk(Some(""), Some("lo"), Some("zz"))
    /\ consumed[2] = Chunk(None, None, None)
    /\ fullResponse = "lo"

\* C27: one beforeChat call sends at most one search request; it carries the
\* resolved user id, the chosen query and the configured maxMemories; and
\* the call has no enhancedMessages until that request has come back, with
\* facts or with a failure.
C27_OneSearchBeforeEnhancing ==
    \A i \in 1..Len(calls) :
        calls[i].op = "beforeChat"
        => /\ Cardinality(SearchesOf(i)) <= 1
           /\ \A r \in SearchesOf(i) :
                 /\ requests[r].userId = calls[i].userId
                 /\ requests[r].query =
                       (IF calls[i].optQuery # None /\ calls[i].optQuery[1] # ""
                        THEN calls[i].optQuery[1]
                        ELSE CHOOSE q \in { calls[i].messages[k].content :
                                               k \in 1..Len(calls[i].messages) } :
                                 IsLastUserContent(calls[i].messages, q))
                 /\ requests[r].limit = config.maxMemories
                 /\ requests[r].status = "pending"
                    => calls[i].pc = "awaitSearch" /\ calls[i].before = NoBefore
           /\ calls[i].pc = "returned"
              => \A r \in SearchesOf(i) : requests[r].status \in {"ok", "failed"}

\* a call that has returned enhanced messages after its one search
C27_Witness ==
    \E i \in FactCalls :
        /\ Cardinality(SearchesOf(i)) = 1
        /\ calls[i].before.enhancedMessages # calls[i].messages
        /\ \E r \in SearchesOf(i) :
              requests[r].limit = 10 /\ requests[r].userId = "anonymous"

\* the requests that fetch has answered
Answered == { r \in 1..Len(requests) : requests[r].response # None }

\* the body carries an error message: a non-empty error or detail field
ServerMessages(body) ==
    { t \in { body.error, body.detail } : body.json /\ t # None /\ t[1] # "" }

StatusLine(response) == "HTTP " \o ToString(response.status) \o ": " \o response.statusText

\* C28 as stated: every non-2xx response becomes a thrown failure whose
\* message is the server's error message if the body carries one, else the
\* HTTP status line; a 2xx response never throws.
C28_NonOkThrowsOkNeverThrows ==
    \A r \in Answered :
        LET response == requests[r].response[1]
        IN  IF response.status \in 200..299
            THEN requests[r].status = "ok" /\ requests[r].failure = None
            ELSE /\ requests[r].status = "failed"
                 /\ requests[r].failure # None
                 /\ IF ServerMessages(response.body) # {}
                    THEN Some(requests[r].failure[1].message) \in ServerMessages(response.body)
                    ELSE requests[r].failure[1].message = StatusLine(response)

\* C28 amended: every non-2xx response becomes a thrown Error whose message
\* is the body's non-empty error field, else its non-empty detail field,
\* else, for a body that is no JSON, the bare status text if there is one,
\* else the line 'HTTP <status>: <statusText>'; a 2xx response does not
\* throw when its body is JSON, and throws the parse error when it is not.
C28_NonOkThrowsOkThrowsOnBadBody ==
    \A r \in Answered :
        LET response == requests[r].response[1]
            body == response.body
        IN  IF response.status \in 200..299
            THEN IF body.json
                 THEN requests[r].status = "ok" /\ requests[r].failure = None
                 ELSE requests[r].status = "failed" /\ requests[r].failure # None
            ELSE /\ requests[r].status = "failed"
                 /\ requests[r].failure # None
                 /\ requests[r].failure[1].isError
                 /\ requests[r].failure[1].message =
                       (IF body.json /\ body.error # None /\ body.error[1] # ""
                        THEN body.error[1]
                        ELSE IF body.json /\ body.detail # None /\ body.detail[1] # ""
                        THEN body.detail[1]
                        ELSE IF ~body.json /\ response.statusText # ""
                        THEN response.statusText
                        ELSE StatusLine(response))

\* a 204 with an empty body made request() throw
C28_Witness ==
    \E r \in Answered :
        /\ requests[r].response[1].status = 204
        /\ ~requests[r].response[1].body.json
        /\ requests[r].status = "failed"
        /\ requests[r].failure[1].message = "Unexpected end of JSON input"

\* C29: the consumer of a wrapped stream is told of the end of the stream,
\* or of the producer's error, only once afterChat has returned and the
\* completion handle is resolved; as long as the store request is
\* outstanding its iteration has not ended.
C29_EndWaitsForStore ==
    /\ consumerPc = "ended"
       => /\ streamCall # 0
          /\ calls[streamCall].pc = "returned"
          /\ memoryPromise.state = "fulfilled"
    /\ \A r \in 1..Len(requests) :
          (requests[r].status = "pending" /\ calls[requests[r].call].caller = "stream")
          => consumerPc # "ended" /\ consumerOutcome.type = "none"

\* the producer threw after a chunk; the consumer got that error, after the
\* store request had been answered and the handle resolved
C29_Witness ==
    /\ consumerPc = "ended"
    /\ consumerOutcome.type = "throw" /\ consumerOutcome.error = ProducerError
    /\ Len(consumed) >= 1
    /\ Len(requests) = 1 /\ requests[1].status # "pending"
    /\ memoryPromise.state = "fulfilled"

\* C30: every request carries the user id resolved for the call that sent
\* it, and goes through the handle filed under that id, which is bound to
\* it: no request of a call for one user carries another user's id.
C30_RequestsCarryOwnUserId ==
    /\ \A u \in DOMAIN clientCache : clientCache[u].userId = u
    /\ \A r \in 1..Len(requests) :
          /\ requests[r].userId = calls[requests[r].call].userId
          /\ requests[r].handle.userId = calls[requests[r].call].userId

\* a search and a store of calls for two users, sent in the order opposite
\* to that of the calls
C30_Witness ==
    /\ Len(requests) = 2
    /\ requests[1].call = 2 /\ requests[2].call = 1
    /\ requests[1].userId # requests[2].userId
    /\ { requests[1].kind, requests[2].kind } = { "search", "extract" }
    /\ Cardinality(DOMAIN clientCache) = 2

\* the extractor is asked for call c's user id and throws
ExtractorFails(c) ==
    /\ c.op \in {"beforeChat", "afterChat", "getContext", "store"}
    /\ ~(c.optUserId # None /\ c.optUserId[1] # "")
    /\ config.hasGetUserId /\ c.req.present /\ c.req.throws

\* C31: a failure of the user-id extractor is not degraded: the call that
\* asked for the user id rejects with the extractor's error, and in doing so
\* sends no request and creates no registry entry.
C31_ExtractorFailureRejects ==
    [][ \A i \in 1..Len(calls) :
          (calls[i].pc = "resolving" /\ calls'[i].pc # "resolving" /\ ExtractorFails(calls[i]))
          => /\ calls'[i].pc = "rejected"
             /\ calls'[i].error = ExtractorError
             /\ calls'[i].handle = None
             /\ requests' = requests
             /\ clientCache' = clientCache
             /\ constructed' = constructed
      ]_vars

\* a store call rejected with the extractor's error: nothing sent, no handle
C31_Witness ==
    \E i \in 1..Len(calls) :
        /\ calls[i].op = "store"
        /\ ExtractorFails(calls[i])
        /\ calls[i].pc = "rejected" /\ calls[i].error = ExtractorError
        /\ requests = << >> /\ clientCache = << >>

\* C32: when several system-role messages are present, beforeChat changes
\* only the one with the lowest index: every other position of
\* enhancedMessages holds the unchanged input message, and the changed
\* message keeps all its fields other than content.
C32_OnlyLowestSystemMessageChanges ==
    \A i \in ReturnedBeforeChats :
        LET in == calls[i].messages
            out == calls[i].before.enhancedMessages
        IN  Cardinality(SystemIndices(in)) >= 2
            => /\ Len(out) = Len(in)
               /\ \A k \in 1..Len(in) :
                     IF \E j \in SystemIndices(in) : j < k
                     THEN out[k] = in[k]
                     ELSE IF k \in SystemIndices(in)
                     THEN /\ DOMAIN out[k] = DOMAIN in[k]
                          /\ \A f \in DOMAIN in[k] \ {"content"} : out[k][f] = in[k][f]
                     ELSE out[k] = in[k]

\* two system messages, facts injected: the first one's content changed, its
\* id and role did not, and the second one is the input's
C32_Witness ==
    \E i \in FactCalls :
        LET out == calls[i].before.enhancedMessages
        IN  /\ config.injectAsSystemMessage
            /\ calls[i].messages = ListTwoUsersTwoSystems
            /\ out[2].content # ListTwoUsersTwoSystems[2].content
            /\ out[2].id = Some("m2") /\ out[2].role = "system"
            /\ out[4] = ListTwoUsersTwoSystems[4]
            /\ out[1] = ListTwoUsersTwoSystems[1] /\ out[3] = ListTwoUsersTwoSystems[3]

\* C33: with system-message injection disabled, beforeChat still performs
\* the search and returns the context and memories, but enhancedMessages is
\* always equal element-for-element to the input list.
C33_InjectionOffKeepsMessages ==
    ~config.injectAsSystemMessage
    => /\ \A i \in StartedBeforeChats :
             searchQuery(calls[i].messages, calls[i].optQuery) # ""
             => Cardinality(SearchesOf(i)) = 1
       /\ \A i \in ReturnedBeforeChats :
             /\ Len(calls[i].before.enhancedMessages) = Len(calls[i].messages)
             /\ \A k \in 1..Len(calls[i].messages) :
                   calls[i].before.enhancedMessages[k] = calls[i].messages[k]
       /\ \A i \in FactCalls :
             /\ calls[i].before.context = BulletLines(FactsOf(i))
             /\ Len(calls[i].before.memories) = Len(FactsOf(i))

\* injection off, two facts found: they are in the result, the messages are
\* the input's
C33_Witness ==
    \E i \in FactCalls :
        /\ ~config.injectAsSystemMessage
        /\ Len(calls[i].before.memories) = 2
        /\ calls[i].before.context # ""
        /\ calls[i].messages = ListSystemUser
        /\ calls[i].before.enhancedMessages = ListSystemUser

\* the beforeChat and getContext calls that have returned
ReturnedRetrievals ==
    { i \in 1..Len(calls) :
        calls[i].op \in {"beforeChat", "getContext"} /\ calls[i].pc = "returned" }

\* the facts the endpoint returned to call i: none when it sent no search,
\* when the search failed or when the answer had no facts field
ReturnedFacts(i) ==
    LET answered == { r \in 1..Len(requests) :
                        /\ requests[r].call = i /\ requests[r].kind = "search"
                        /\ requests[r].status = "ok"
                        /\ requests[r].searchResult[1].facts # None }
    IN  IF answered = {} THEN << >>
        ELSE requests[CHOOSE r \in answered : TRUE].searchResult[1].facts[1]

\* C34: in every beforeChat and getContext result, memories has one entry per
\* returned fact in the same order (content = fact text, id = the fact's
\* memory id or the empty string), and memories is non-empty exactly when
\* context is non-empty.
C34_MemoriesMirrorFacts ==
    \A i \in ReturnedRetrievals :
        LET facts == ReturnedFacts(i)
            memories == calls[i].before.memories
        IN  /\ Len(memories) = Len(facts)
            /\ \A k \in 1..Len(facts) :
                  /\ memories[k].content = facts[k].text
                  /\ memories[k].id = IF facts[k].memory_id # None
                                      THEN facts[k].memory_id[1] ELSE ""
            /\ (memories # << >>) <=> (calls[i].before.context # "")

\* a getContext call given two facts, the second without a memory id
C34_Witness ==
    \E i \in ReturnedRetrievals :
        /\ calls[i].op = "getContext"
        /\ Len(ReturnedFacts(i)) = 2
        /\ calls[i].before.memories[1].id = "mem1"
        /\ calls[i].before.memories[2].id = ""
        /\ calls[i].before.memories[2].content = "has a cat"
        /\ calls[i].before.context # ""

\* C35: when a wrapped stream ends with an empty accumulator (the producer
\* yielded no chunk, failed before the first chunk, or no chunk matched a
\* known shape) and auto-store is enabled, afterChat is still invoked and a
\* store request is still sent, its record ending in an assistant turn with
\* empty content.
C35_EmptyResponseStillStored ==
    (config.autoStore /\ fullResponse = "" /\ genPc \in {"awaitAfterChat", "completed"})
    => /\ streamCall \in StreamCalls
       /\ calls[streamCall].text = ""
       /\ calls[streamCall].pc # "resolving"
          => /\ Cardinality(ExtractsOf(streamCall)) = 1
             /\ \A r \in ExtractsOf(streamCall) :
                   LET conversation == requests[r].conversation
                   IN  /\ conversation # << >>
                       /\ conversation[Len(conversation)] =
                              ConversationMessage("assistant", "")

\* the producer failed before its first chunk; the store request went out
\* with an empty assistant turn behind the user's message
C35_Witness ==
    /\ config.autoStore
    /\ stream.chunks = << >> /\ completion.type = "throw"
    /\ chatMessages = ListSystemUser
    /\ streamCall # 0
    /\ \E r \in ExtractsOf(streamCall) :
          requests[r].conversation =
              << ConversationMessage("user", "hi"), ConversationMessage("assistant", "") >>

\* C36: with auto-store disabled, afterChat leaves the middleware state
\* untouched: the user-id extractor is not invoked and the client registry is
\* unchanged (no handle is created), for any arguments.
C36_AutoStoreOffTouchesNothing ==
    ~config.autoStore
    => /\ extractorCalls = 0
       /\ clientCache = << >>
       /\ constructed = 0
       /\ \A i \in 1..Len(calls) :
             calls[i].op = "afterChat" => calls[i].handle = None /\ calls[i].pc # "resolving"

\* auto-store off: afterChat has returned for a request the extractor would
\* have been asked about, and for a stream, and the registry is empty
C36_Witness ==
    /\ ~config.autoStore /\ config.hasGetUserId
    /\ \E i \in DirectCalls :
          /\ calls[i].op = "afterChat" /\ calls[i].pc = "returned"
          /\ calls[i].req.present /\ calls[i].optUserId = None
    /\ \E i \in StreamCalls : calls[i].pc = "returned" /\ calls[i].optUserId = Some("alice")
    /\ extractorCalls = 0 /\ clientCache = << >>

\* the texts a wrapped stream can add to its accumulator over its passes
AccumulatedTexts ==
    { ConcatContent(cs) : cs \in SeqsUpTo(ChunkSet, MaxChunks * (MaxCalls + 1)) }

\* b is a with some more text behind it
Extends(a, b) == \E t \in AccumulatedTexts : b = a \o t

\* C37: the completion handle settles at most once and its value never
\* changes afterwards, and the accumulator of a wrapped stream is never
\* reset: over any sequence of consumer operations, a second iteration of the
\* same wrapped object included, the text passed to each afterChat invocation
\* has the text of every earlier invocation as a prefix.
C37_HandleSettlesOnceTextOnlyGrows ==
    [][ /\ memoryPromise.state # "pending" => memoryPromise' = memoryPromise
        /\ \E c \in ChunkSet : fullResponse' = fullResponse \o chunkContent(c)
        /\ \A i, j \in { k \in 1..Len(calls') : calls'[k].caller = "stream" } :
              i < j => Extends(calls'[i].text, calls'[j].text)
      ]_vars

\* two passes over a stream that starts over: the second afterChat got the
\* text twice, its store gave another answer than the first, and the handle
\* holds the first
C37_Witness ==
    /\ Cardinality(StreamCalls) = 2
    /\ \E i, j \in StreamCalls :
          /\ i < j
          /\ calls[i].text = "Hel" /\ calls[j].text = "HelHel"
          /\ calls[j].pc = "returned"
          /\ calls[i].result # calls[j].result
          /\ memoryPromise = [state |-> "fulfilled", value |-> calls[i].result]
    /\ consumerPc = "ended"

\* the calls of functions wrapped by remember
RememberCalls == { i \in 1..Len(calls) : calls[i].op = "remember" }

\* the requests of kind kind that call i has sent and that came back as status
RequestsOf(i, kind, status) ==
    { r \in 1..Len(requests) :
        requests[r].call = i /\ requests[r].kind = kind /\ requests[r].status = status }

\* for call i: the exchange is stored only after the function returned a
\* truthy result; if context retrieval rejected the function was never
\* invoked; if storing rejected the call has rejected although the function
\* completed
RememberNotBestEffort(i) ==
    LET c == calls[i]
        sent(kind) == { r \in 1..Len(requests) : requests[r].call = i /\ requests[r].kind = kind }
    IN  /\ sent("extract") # {} => c.fnCalls = 1 /\ truthy(c.fnResult)
        /\ \A r \in sent("extract") :
              requests[r].conversation =
                  << ConversationMessage("user", c.arg.s),
                     ConversationMessage("assistant", String(c.fnResult)) >>
        /\ \A r \in RequestsOf(i, "search", "failed") :
              c.pc = "rejected" /\ c.fnCalls = 0 /\ c.thrown = requests[r].failure
        /\ \A r \in RequestsOf(i, "extract", "failed") :
              c.pc = "rejected" /\ c.fnCalls = 1 /\ c.thrown = requests[r].failure

\* C38 as stated: for a wrapped function called with a string first
\* argument, the function runs only after context retrieval succeeded and
\* the exchange is stored only after the function returned a truthy result;
\* if context retrieval rejects the function is never invoked, and if storing
\* rejects the call rejects although the function completed.
C38_AnyStringRetrievesFirst ==
    \A i \in RememberCalls :
        calls[i].arg.type = "string"
        => /\ calls[i].fnCalls > 0 => RequestsOf(i, "search", "ok") # {}
           /\ RememberNotBestEffort(i)

\* C38 amended: for a wrapped function called with a non-empty string first
\* argument, the function runs only after context retrieval succeeded and
\* the exchange is stored only after the function returned a truthy result;
\* if context retrieval rejects the function is never invoked, and if storing
\* rejects the call rejects although the function completed. With an empty
\* string, as with a first argument that is no string, the function runs
\* with no retrieval before it and nothing is stored after it.
C38_NonEmptyStringRetrievesFirst ==
    \A i \in RememberCalls :
        IF calls[i].arg.type = "string" /\ calls[i].arg.s # ""
        THEN /\ calls[i].fnCalls > 0 => RequestsOf(i, "search", "ok") # {}
             /\ RememberNotBestEffort(i)
        ELSE /\ \A r \in 1..Len(requests) : requests[r].call # i
             /\ calls[i].pc # "awaitContext" /\ calls[i].pc # "awaitStore"

\* the function returned 42 for 'hi' after a successful retrieval, the store
\* of 'hi' / '42' failed, and the call rejected with that failure
C38_Witness ==
    \E i \in RememberCalls :
        /\ calls[i].arg = JsString("hi")
        /\ calls[i].fnCalls = 1 /\ calls[i].fnResult = JsNumber(42)
        /\ RequestsOf(i, "search", "ok") # {}
        /\ \E r \in RequestsOf(i, "extract", "failed") :
              /\ requests[r].conversation[2].content = "42"
              /\ calls[i].thrown = requests[r].failure
        /\ calls[i].pc = "rejected"

\* the put calls that were waiting for storeConversation
WaitingPuts == { i \in 1..Len(calls) : calls[i].op = "put" /\ calls[i].pc = "awaitStore" }

\* C39: put appends the user/assistant pair to the local chat history only
\* after the remote storeConversation call succeeded: if that call rejects,
\* put rejects and the chat history is unchanged; a successful put makes the
\* history grow by exactly two entries, user then assistant.
C39_PutAppendsOnlyAfterStore ==
    [][ /\ Len(calls') > Len(calls) => chatHistory' = chatHistory
        /\ \A i \in WaitingPuts :
              LET stored == \E r \in 1..Len(requests) :
                                /\ requests[r].call = i
                                /\ requests[r].status = "pending"
                                /\ requests'[r].status = "ok"
                  failed == \E r \in 1..Len(requests) :
                                /\ requests[r].call = i
                                /\ requests[r].status = "pending"
                                /\ requests'[r].status = "failed"
              IN  /\ calls'[i].pc = "returned" <=> stored
                  /\ calls'[i].pc = "rejected" <=> failed
                  /\ stored
                     => /\ Len(chatHistory') = Len(chatHistory) + 2
                        /\ SubSeq(chatHistory', 1, Len(chatHistory)) = chatHistory
                        /\ chatHistory'[Len(chatHistory) + 1] =
                               ChatEntry("user", calls[i].userMessage)
                        /\ chatHistory'[Len(chatHistory) + 2] =
                               ChatEntry("assistant", calls[i].assistantMessage)
                  /\ failed
                     => /\ chatHistory' = chatHistory
                        /\ \E r \in 1..Len(requests) :
                              requests'[r].call = i /\ calls'[i].thrown = requests'[r].failure
        /\ Len(chatHistory') > Len(chatHistory)
           => \E i \in WaitingPuts : calls'[i].pc = "returned"
      ]_vars

\* two overlapping puts: the first one's store failed, the second one's
\* succeeded, and the history holds the second pair alone
C39_Witness ==
    /\ Len(calls) = 2
    /\ calls[1].op = "put" /\ calls[1].pc = "rejected" /\ calls[1].userMessage = "hi"
    /\ calls[2].op = "put" /\ calls[2].pc = "returned" /\ calls[2].userMessage = ""
    /\ chatHistory = << ChatEntry("user", ""), ChatEntry("assistant", "yo") >>

====
